---- MODULE Spec2Model ----
(***************************************************************************)
(* A model of the RakNet session of HighMC (session.go, raknet_packet.go   *)
(* and the frame/ACK codecs).  One session is modelled: its reader task    *)
(* (session.work -> handlePacket -> the frame handlers), its sender task   *)
(* (session.sendAsync -> handleAckUpdate / update) and the window tick.    *)
(*                                                                         *)
(* The session struct is the record held by the variable s; its fields     *)
(* keep the names of the Go struct.  The handlers are operators from a     *)
(* session record to a session record, composed exactly as the Go          *)
(* functions call each other, so that an action is one whole handler run.  *)
(*                                                                         *)
(* uint32 values are held as the int32 with the same bit pattern (TLC      *)
(* integers are 32 bits wide): ^uint32(0) is -1, addition and subtraction  *)
(* wrap, and "<" on uint32 is the unsigned comparison LtU32.               *)
(*                                                                         *)
(* A payload (bytes.Buffer) is a sequence of numbers.  Its first element   *)
(* is the frame id byte; for the RakNet control frames every further       *)
(* element stands for one field of the frame (a field is several bytes on  *)
(* the wire; a payload with too few fields is a payload whose decoding     *)
(* runs past the end).                                                     *)
(*                                                                         *)
(* Fields of s that are not fields of the Go struct record what the        *)
(* handlers did (history variables): out, hand, joined, app, frames, seen, *)
(* accepted, relIn, rx, trail, panic, calls, stale, at, recovered,         *)
(* closing.                                                                *)
(***************************************************************************)
EXTENDS Integers, Sequences, FiniteSets, TLC

VARIABLES s

vars == <<s>>

(***************************************************************************)
(* Bounds of the model.                                                    *)
(***************************************************************************)
\* Largest DataPacket sequence number the peer sends (SpecSeq, SpecAck).
MaxSeq == 3
\* Largest message index the peer sends (SpecReorder).
MaxIdx == 2
\* Datagrams the peer sends (SpecHandshake).
MaxRecv == 4
\* Datagrams the peer sends (SpecSeq).
MaxSeqRecv == 3
\* Datagrams the peer sends after the handshake (SpecReorder).
MaxData == 4
\* Fragments the peer sends (SpecSplit).
MaxFrags == 3
\* Largest split count the peer sends (SpecSplit).
MaxSplitCount == 2
\* Largest split id the peer sends (SpecSplit).
MaxSplitID == 1
\* Fragments received in SpecSplitRel.
MaxRelFrags == 2
\* Calls of SendEncapsulated (SpecSend).
MaxSends == 2
\* ACK and NACK datagrams the peer sends (SpecRecovery).
MaxAckRecv == 2
\* Pong frames the peer sends (SpecTimeout).
MaxPongs == 2
\* Calls of Close by the reader and the application together (SpecClose).
MaxCloseCalls == 3
\* Peer addresses (SpecRouter).
MaxAddr == 3
\* Datagrams that arrive at the socket (SpecRouter).
MaxArrivals == 3
\* Entries a bounded queue of the router or of a session holds in SpecRouter; it
\* stands for chanBufsize.
QueueCap == 2

(***************************************************************************)
(* Program constants.                                                      *)
(***************************************************************************)
windowSize == 2048
Int32Max == 2147483647
TriadSize == 16777216
ShortSize == 65536
\* Frame ids (the keys of handlers and dataPacketHandlers).
IDPing == 0
IDPong == 3
IDOpenConnectionRequest1 == 5
IDOpenConnectionReply1 == 6
IDOpenConnectionRequest2 == 7
IDOpenConnectionReply2 == 8
IDClientConnect == 9
IDServerHandshake == 16
IDClientHandshake == 19
IDClientDisconnect == 21
IDDataPacket == 128
IDMCPE == 142
IDNack == 160
IDAck == 192
\* Capacity of the channels (make(chan ..., chanBufsize)).
chanBufsize == 256
\* const MaxPingTries uint64 = 3
MaxPingTries == 3
\* var timeout = time.Millisecond * 2000
timeout == 2000
\* time.NewTimer(time.Millisecond * 1500), and the Reset of a session not Established
connectTimeout == 1500

(***************************************************************************)
(* uint32 arithmetic on the int32 bit pattern.                             *)
(***************************************************************************)
Int32Min == -Int32Max - 1

AddU32(a, b) ==
  IF b >= 0
  THEN IF a > Int32Max - b THEN (a - Int32Max - 1) + (b - Int32Max - 1) ELSE a + b
  ELSE IF a < Int32Min - b THEN (a + Int32Max + 1) + (b + Int32Max + 1) ELSE a + b

NegU32(a) == IF a = Int32Min THEN a ELSE -a

SubU32(a, b) == AddU32(a, NegU32(b))

LtU32(a, b) == IF (a >= 0) = (b >= 0) THEN a < b ELSE a >= 0

\* The values i with a <= i < b in uint32 order (a for loop "for i := a; i < b; i++").
\* b is always a 24-bit value read by ReadLTriad, so the range never spans the
\* sign change of the bit pattern.
RangeU32(a, b) == IF LtU32(a, b) /\ ((a >= 0) = (b >= 0)) THEN a .. (b - 1) ELSE {}

\* WriteLTriad keeps the low 24 bits of a uint32.
LTriad(n) == n % TriadSize

(***************************************************************************)
(* Maps (Go map[K]V) are functions; these are insert and delete.           *)
(***************************************************************************)
EmptyMap == [k \in {} |-> 0]

MapPut(m, k, v) == [x \in DOMAIN m \cup {k} |-> IF x = k THEN v ELSE m[x]]

MapDel(m, k) == [x \in DOMAIN m \ {k} |-> m[x]]

\* sort.Sort on uint32 / sort.Ints on keys: ascending order of a finite set.
RECURSIVE SortU32(_)
SortU32(S) ==
  IF S = {} THEN <<>>
  ELSE LET m == CHOOSE x \in S : \A y \in S : x = y \/ LtU32(x, y)
       IN <<m>> \o SortU32(S \ {m})

\* GetSortedKeys: the keys of a map in ascending order.
GetSortedKeys(m) == SortU32(DOMAIN m)

RECURSIVE Concat(_)
Concat(ss) == IF ss = <<>> THEN <<>> ELSE Head(ss) \o Concat(Tail(ss))

(***************************************************************************)
(* EncapsulatedPacket and the session.                                     *)
(***************************************************************************)
\* An EncapsulatedPacket with the zero value in every field but those given.
Encapsulated(rel, idx, buf) ==
  [Reliability |-> rel, HasSplit |-> FALSE, MessageIndex |-> idx,
   OrderIndex |-> 0, OrderChannel |-> 0,
   SplitCount |-> 0, SplitID |-> 0, SplitIndex |-> 0, Buffer |-> buf]

Fragment(rel, idx, id, count, index, buf) ==
  [Encapsulated(rel, idx, buf) EXCEPT
     !.HasSplit = TRUE, !.SplitCount = count, !.SplitID = id, !.SplitIndex = index]

\* reliability >= 2 && reliability != 5: the packet carries a message index.
HasMessageIndex(ep) == ep.Reliability >= 2 /\ ep.Reliability # 5

\* The address of the peer of the modelled session.
Address == "client"

NewSession ==
  [Status |-> 0, ID |-> 0, mtuSize |-> 0,
   AckChan |-> <<>>, EncapsulatedChan |-> <<>>,
   ackQueue |-> {}, nackQueue |-> {}, recovery |-> EmptyMap,
   packetWindow |-> {}, windowBorder |-> <<0, windowSize>>,
   reliableWindow |-> EmptyMap, reliableBorder |-> <<0, windowSize>>,
   seqNumber |-> -1, lastSeq |-> -1, lastMsgIndex |-> -1,
   splitID |-> 0, splitTable |-> EmptyMap,
   messageIndex |-> 0, channelIndex |-> [c \in 0..7 |-> 0],
   pingTries |-> 0, closed |-> FALSE, Player |-> 0,
   \* the timeout timer: the duration it was armed with last and the first byte of
   \* the datagram that armed it (-1 when NewSession or the ping case of work did)
   timeout |-> [d |-> connectTimeout, head |-> -1],
   \* the DataPacket the sender task has numbered and not yet handed to send
   sending |-> <<>>,
   \* where the loops of work and sendAsync are, and whether the close signal was
   \* set by another task while work waited in its second select
   tasks |-> [reader |-> "select", sender |-> "select", byOther |-> FALSE],
   \* history
   out |-> <<>>, hand |-> <<>>, joined |-> <<>>, app |-> <<>>, frames |-> <<>>,
   seen |-> {0}, accepted |-> {}, relIn |-> {}, rx |-> <<>>, trail |-> <<>>,
   panic |-> FALSE, calls |-> <<>>, stale |-> {}, at |-> <<>>, recovered |-> FALSE,
   closing |-> [pc |-> [t \in {"reader", "application"} |-> "idle"],
               why |-> [t \in {"reader", "application"} |-> ""],
               calls |-> 0, panics |-> 0, crashed |-> FALSE]]

\* session.send: the datagram goes to the router's send queue, which the router's
\* send loop writes to the socket in order; out is everything sent so far.
send(st, pk) == [st EXCEPT !.out = Append(@, pk)]

\* A panic unwinds to the recover of handlePacket: nothing more of the handler runs.
Panic(st) == [st EXCEPT !.panic = TRUE]

SetStatus(st, v) == [st EXCEPT !.Status = v, !.seen = @ \cup {v}]

\* sendEncapsulatedDirect numbering its DataPacket without storing the new count.
sendEncapsulatedDirectNoAdd(st, ep) ==
  send(st, [t |-> IDDataPacket, seq |-> LTriad(AddU32(st.seqNumber, 1)), eps |-> <<ep>>])

\* session.sendEncapsulatedDirect
sendEncapsulatedDirect(st, ep) ==
  LET seq == AddU32(st.seqNumber, 1)
  IN send([st EXCEPT !.seqNumber = seq],
          [t |-> IDDataPacket, seq |-> LTriad(seq), eps |-> <<ep>>])

\* session.Close
Close(st) ==
  IF st.closed THEN st
  ELSE sendEncapsulatedDirect([st EXCEPT !.closed = TRUE],
                              Encapsulated(0, 0, <<IDClientDisconnect>>))

(***************************************************************************)
(* Handshake frame handlers.  Each appends to frames what it saw and did.  *)
(***************************************************************************)
Obs(st) == [Status |-> st.Status, ID |-> st.ID, mtuSize |-> st.mtuSize, sent |-> Len(st.out)]

Traced(name, st, after) ==
  [after EXCEPT !.frames = Append(@, [frame |-> name, pre |-> Obs(st), post |-> Obs(after)])]

\* OpenConnectionRequest1.Handle without its test of the status.
OpenConnectionRequest1HandleAnyStatus(st, pk) ==
  Traced("OpenConnectionRequest1", st,
         send(SetStatus(st, 1),
              [t |-> IDOpenConnectionReply1, MtuSize |-> (18 + pk.pad) % ShortSize]))

\* OpenConnectionRequest1.Read and Handle.  pk.pad is the number of bytes that
\* follow the magic and the protocol byte.
OpenConnectionRequest1Handle(st, pk) ==
  LET MtuSize == 18 + pk.pad
      after ==
        IF st.Status > 1 THEN st
        ELSE send(SetStatus(st, 1),
                  [t |-> IDOpenConnectionReply1, MtuSize |-> MtuSize % ShortSize])
  IN Traced("OpenConnectionRequest1", st, after)

OpenConnectionRequest2Handle(st, pk) ==
  LET after ==
        IF st.Status # 1 THEN st
        ELSE send(SetStatus([st EXCEPT !.ID = pk.ClientID, !.mtuSize = pk.MtuSize], 2),
                  [t |-> IDOpenConnectionReply2, ClientAddress |-> Address,
                   MtuSize |-> pk.MtuSize])
  IN Traced("OpenConnectionRequest2", st, after)

\* ClientConnect.Handle with SendPong set to SendPing (the "+ 1000" forgotten).
ClientConnectHandleSamePong(st, buf) ==
  LET SendPing == buf[3]
      after ==
        IF st.Status # 2 THEN st
        ELSE sendEncapsulatedDirect(st,
               Encapsulated(0, 0, <<IDServerHandshake, Address, SendPing, SendPing>>))
  IN [after EXCEPT !.frames = Append(@, [frame |-> "ClientConnect", pre |-> Obs(st),
                                          post |-> Obs(after)])]

\* ClientConnect payload: <<0x09, ClientID, SendPing, UseSecurity>>.
ClientConnectHandle(st, buf) ==
  LET SendPing == buf[3]
      after ==
        IF st.Status # 2 THEN st
        ELSE sendEncapsulatedDirect(st,
               Encapsulated(0, 0, <<IDServerHandshake, Address, SendPing, SendPing + 1000>>))
  IN Traced("ClientConnect", st, after)

\* session.connComplete
connComplete(st) == IF st.Status # 3 THEN st ELSE [st EXCEPT !.Player = @ + 1]

ClientHandshakeHandle(st, buf) ==
  Traced("ClientHandshake", st, connComplete(SetStatus(st, 3)))

ClientDisconnectHandle(st, buf) == Close(st)

\* Ping payload: <<0x00, PingID>>; the reply is a Pong with the same id.
PingHandle(st, buf) ==
  sendEncapsulatedDirect(st, Encapsulated(0, 0, <<IDPong, buf[2]>>))

PongHandle(st, buf) ==
  IF st.pingTries > 0 THEN [st EXCEPT !.pingTries = 0] ELSE st

\* Fields each data-control frame reads after its id byte (Read panics when the
\* payload is shorter).
FrameFields(head) ==
  CASE head = IDPing -> 1
    [] head = IDPong -> 1
    [] head = IDClientConnect -> 3
    [] head = IDServerHandshake -> 3
    [] head = IDClientHandshake -> 3
    [] OTHER -> 0

\* GetDataPacket: the ids of dataPacketHandlers.
DataPacketIDs ==
  {IDPing, IDPong, IDClientConnect, IDServerHandshake, IDClientHandshake, IDClientDisconnect}

\* handler.Read(ep.Buffer); handler.Handle(s) for a data-control frame.
DataFrameHandle(st, head, buf) ==
  IF Len(buf) < 1 + FrameFields(head) THEN Panic(st)
  ELSE CASE head = IDPing -> PingHandle(st, buf)
         [] head = IDPong -> PongHandle(st, buf)
         [] head = IDClientConnect -> ClientConnectHandle(st, buf)
         [] head = IDClientHandshake -> ClientHandshakeHandle(st, buf)
         [] head = IDClientDisconnect -> ClientDisconnectHandle(st, buf)
         [] OTHER -> st

(***************************************************************************)
(* Delivery of encapsulated packets: handleEncapsulated, joinSplits,       *)
(* preEncapsulated.                                                        *)
(***************************************************************************)
RECURSIVE handleEncapsulated(_, _)

\* for i := uint32(0); i < ep.SplitCount; i++ { sep.Write(tab[i]) }: an index
\* that is not in the table reads as a nil slice and writes nothing.
JoinedBytes(tab, count) ==
  Concat([i \in 1..count |-> IF (i - 1) \in DOMAIN tab THEN tab[i - 1] ELSE <<>>])

\* joinSplits storing every fragment, a repeated index replacing the stored bytes.
joinSplitsOverwrite(st, ep) ==
  IF st.Status < 3 THEN st
  ELSE
    LET tab0 == IF ep.SplitID \in DOMAIN st.splitTable
                THEN st.splitTable[ep.SplitID] ELSE EmptyMap
        tab == MapPut(tab0, ep.SplitIndex, ep.Buffer)
    IN IF Cardinality(DOMAIN tab) = ep.SplitCount
       THEN LET sep == Encapsulated(0, 0, JoinedBytes(tab, ep.SplitCount))
                st1 == [st EXCEPT
                          !.splitTable = MapDel(@, ep.SplitID),
                          !.joined = Append(@, [sep |-> sep, last |-> ep,
                                                have |-> DOMAIN tab])]
            IN handleEncapsulated(st1, sep)
       ELSE [st EXCEPT !.splitTable = MapPut(@, ep.SplitID, tab)]

\* session.joinSplits
joinSplits(st, ep) ==
  IF st.Status < 3 THEN st
  ELSE
    LET tab0 == IF ep.SplitID \in DOMAIN st.splitTable
                THEN st.splitTable[ep.SplitID] ELSE EmptyMap
        tab == IF ep.SplitIndex \in DOMAIN tab0 THEN tab0
               ELSE MapPut(tab0, ep.SplitIndex, ep.Buffer)
    IN IF Cardinality(DOMAIN tab) = ep.SplitCount
       THEN LET sep == Encapsulated(0, 0, JoinedBytes(tab, ep.SplitCount))
                st1 == [st EXCEPT
                          !.splitTable = MapDel(@, ep.SplitID),
                          !.joined = Append(@, [sep |-> sep, last |-> ep,
                                                have |-> DOMAIN tab])]
            IN handleEncapsulated(st1, sep)
       ELSE [st EXCEPT !.splitTable = MapPut(@, ep.SplitID, tab)]

\* handleEncapsulated passing every 0x8e payload up, whatever the status.
handleEncapsulatedAnyStatus(st, ep) ==
  LET st1 == [st EXCEPT !.hand = Append(@, ep), !.at = Append(@, st.Status)]
  IN IF ep.HasSplit
     THEN IF st1.Status > 2 THEN joinSplits(st1, ep) ELSE st1
     ELSE IF ep.Buffer = <<>> THEN Panic(st1)
     ELSE LET head == Head(ep.Buffer)
          IN IF head = IDMCPE
             THEN [st1 EXCEPT !.app = Append(@, Tail(ep.Buffer))]
             ELSE IF head \in DataPacketIDs
                  THEN DataFrameHandle(st1, head, ep.Buffer)
                  ELSE st1

\* session.handleEncapsulated.  hand is every packet this function was called with
\* and at the status at each call.
handleEncapsulated(st, ep) ==
  LET st1 == [st EXCEPT !.hand = Append(@, ep), !.at = Append(@, st.Status)]
  IN IF ep.HasSplit
     THEN IF st1.Status > 2 THEN joinSplits(st1, ep) ELSE st1
     ELSE IF ep.Buffer = <<>> THEN Panic(st1)   \* ReadByte on an empty buffer
     ELSE LET head == Head(ep.Buffer)
          IN IF st1.Status > 2 /\ head = IDMCPE
             THEN \* Player.HandlePacket gets the buffer after its id byte was read
                  [st1 EXCEPT !.app = Append(@, Tail(ep.Buffer))]
             ELSE IF head \in DataPacketIDs
                  THEN DataFrameHandle(st1, head, ep.Buffer)
                  ELSE st1

\* The three increments of preEncapsulated with the one of reliableBorder[1] left out.
AdvanceLowerOnly(st) ==
  [st EXCEPT !.lastMsgIndex = AddU32(@, 1),
             !.reliableBorder = <<AddU32(@[1], 1), @[2]>>]

\* s.lastMsgIndex++; s.reliableBorder[0]++; s.reliableBorder[1]++
Advance(st) ==
  [st EXCEPT !.lastMsgIndex = AddU32(@, 1),
             !.reliableBorder = <<AddU32(@[1], 1), AddU32(@[2], 1)>>]

\* The loop without its "break": every buffered packet is delivered in key order.
RECURSIVE DrainReliableNoBreak(_, _)
DrainReliableNoBreak(st, keys) ==
  IF st.panic \/ keys = <<>> THEN st
  ELSE LET i == Head(keys)
           st1 == handleEncapsulated(Advance(st), st.reliableWindow[i])
       IN IF st1.panic THEN st1
          ELSE DrainReliableNoBreak([st1 EXCEPT !.reliableWindow = MapDel(@, i)],
                                    Tail(keys))

\* The loop of preEncapsulated over GetSortedKeys(s.reliableWindow).
RECURSIVE DrainReliable(_, _)
DrainReliable(st, keys) ==
  IF st.panic \/ keys = <<>> THEN st
  ELSE LET i == Head(keys)
       IN IF SubU32(i, st.lastMsgIndex) # 1 THEN st
          ELSE LET st1 == handleEncapsulated(Advance(st), st.reliableWindow[i])
               IN IF st1.panic THEN st1
                  ELSE DrainReliable([st1 EXCEPT !.reliableWindow = MapDel(@, i)],
                                     Tail(keys))

\* session.preEncapsulated.  relIn is every message index that passed the window check.
preEncapsulated(st, ep) ==
  IF HasMessageIndex(ep)
  THEN IF LtU32(ep.MessageIndex, st.reliableBorder[1])
          \/ ~LtU32(ep.MessageIndex, st.reliableBorder[2])
       THEN st
       ELSE LET st0 == [st EXCEPT !.relIn = @ \cup {ep.MessageIndex}]
            IN IF SubU32(ep.MessageIndex, st0.lastMsgIndex) = 1
               THEN LET st1 == handleEncapsulated(Advance(st0), ep)
                    IN DrainReliable(st1, GetSortedKeys(st1.reliableWindow))
               ELSE [st0 EXCEPT !.reliableWindow = MapPut(@, ep.MessageIndex, ep)]
  ELSE handleEncapsulated(st, ep)

(***************************************************************************)
(* Datagram handlers of the reader.                                        *)
(***************************************************************************)
\* ackUpdate{got, nack, seqs}
AckUpdate(got, nack, seqs) == [got |-> got, nack |-> nack, seqs |-> seqs]

Post(st, u) == [st EXCEPT !.AckChan = Append(@, u)]

\* The NACK loop of GeneralDataPacket.Handle: one ackUpdate per missing sequence.
RECURSIVE PostNacks(_, _)
PostNacks(st, seqs) ==
  IF seqs = <<>> THEN st
  ELSE LET i == Head(seqs)
       IN PostNacks(IF i \in st.packetWindow THEN st
                    ELSE Post(st, AckUpdate(FALSE, TRUE, <<i>>)),
                    Tail(seqs))

\* for _, pk := range pk.Packets { session.preEncapsulated(pk) }
RECURSIVE PreEncapsulatedAll(_, _)
PreEncapsulatedAll(st, eps) ==
  IF st.panic \/ eps = <<>> THEN st
  ELSE PreEncapsulatedAll(preEncapsulated(st, Head(eps)), Tail(eps))

\* The window test with its lower bound forgotten.
InWindowUpperOnly(st, seq) == LtU32(seq, st.windowBorder[2])

\* The window test of GeneralDataPacket.Handle.
InWindow(st, seq) ==
  ~LtU32(seq, st.windowBorder[1]) /\ LtU32(seq, st.windowBorder[2])

\* GeneralDataPacket.Handle.  accepted is every sequence that passed the window test.
GeneralDataPacketHandle(st, pk) ==
  IF ~InWindow(st, pk.SeqNumber) THEN st
  ELSE
    LET st1 == Post([st EXCEPT !.packetWindow = @ \cup {pk.SeqNumber},
                               !.accepted = @ \cup {pk.SeqNumber}],
                    AckUpdate(FALSE, FALSE, <<pk.SeqNumber>>))
        diff == SubU32(pk.SeqNumber, st.lastSeq)
        st2 == IF diff # 1
               THEN PostNacks(st1, SortU32(RangeU32(AddU32(st.lastSeq, 1), pk.SeqNumber)))
               ELSE st1
    IN IF ~LtU32(diff, 1)
       THEN PreEncapsulatedAll(
              [st2 EXCEPT !.lastSeq = pk.SeqNumber,
                          !.windowBorder = <<AddU32(@[1], diff), AddU32(@[2], diff)>>],
              pk.Packets)
       ELSE st2

\* Ack.Handle
AckHandle(st, pk) == Post(st, AckUpdate(TRUE, FALSE, pk.Seqs))

\* Nack.Handle: the reader also deletes the listed sequences from nackQueue.
NackHandle(st, pk) ==
  [Post(st, AckUpdate(TRUE, TRUE, pk.Seqs)) EXCEPT
     !.nackQueue = @ \ {pk.Seqs[i] : i \in DOMAIN pk.Seqs}]

\* handler.Handle(s) for the handler GetRaknetPacket(head) gives; none for a head
\* that is not registered.
HandlerHandle(st, pk) ==
  CASE pk.head >= 128 /\ pk.head < 144 -> GeneralDataPacketHandle(st, pk)
    [] pk.head = IDOpenConnectionRequest1 -> OpenConnectionRequest1Handle(st, pk)
    [] pk.head = IDOpenConnectionRequest2 -> OpenConnectionRequest2Handle(st, pk)
    [] pk.head = IDAck -> AckHandle(st, pk)
    [] pk.head = IDNack -> NackHandle(st, pk)
    [] OTHER -> st

\* A datagram whose bytes end before its last field carries cut; its other fields
\* are what was decoded before the end.
Cut(pk) == [cut |-> TRUE] @@ pk

IsCut(pk) == "cut" \in DOMAIN pk

\* handler.Read going on with what it has decoded when the bytes run out.
ReadNeverOverflows(pk) == FALSE

\* handler.Read(pk.Buffer): Read returns an error when fewer bytes are left than
\* asked for, and every primitive, and NewEncapsulated, panics on that error.
ReadOverflows(pk) == IsCut(pk)

\* handlePacket resetting the timer for ACK and NACK datagrams too.
handlePacketResetAll(st, pk) ==
  LET st0 == [st EXCEPT !.frames = <<>>,
                        !.timeout = [d |-> IF st.Status # 3 THEN connectTimeout ELSE timeout,
                                     head |-> pk.head]]
      done ==
        IF ReadOverflows(pk) THEN Panic(st0) ELSE HandlerHandle(st0, pk)
  IN [done EXCEPT !.panic = FALSE, !.recovered = @ \/ done.panic]

\* session.handlePacket: the timer is reset for every head but 0xa0 and 0xc0, with
\* the status the session has before the datagram is handled; then
\* GetRaknetPacket(head), Read, Handle, under a recover that ends every panic and
\* returns; recovered tells that it has done so.
handlePacket(st, pk) ==
  LET st0 == [st EXCEPT !.frames = <<>>,
                        !.timeout = IF pk.head # IDNack /\ pk.head # IDAck
                                    THEN [d |-> IF st.Status # 3 THEN connectTimeout
                                                ELSE timeout,
                                          head |-> pk.head]
                                    ELSE @]
      done ==
        IF ReadOverflows(pk) THEN Panic(st0) ELSE HandlerHandle(st0, pk)
  IN [done EXCEPT !.panic = FALSE, !.recovered = @ \/ done.panic]

(***************************************************************************)
(* The ACK codec and the sender task.                                      *)
(***************************************************************************)
AckRecord(start, last) ==
  [single |-> start = last, start |-> LTriad(start), last |-> LTriad(last)]

\* One turn of the loop of EncodeAck: current is t[pointer], st holds start, last
\* and the records written so far.
EncodeAckStep(st, current) ==
  LET diff == SubU32(current, st.last)
  IN IF diff = 1 THEN [st EXCEPT !.last = current]
     ELSE IF LtU32(1, diff)
          THEN [start |-> current, last |-> current,
                recs |-> Append(st.recs, AckRecord(st.start, st.last))]
          ELSE st

\* The turns for t[lo] .. t[hi] in order.  They are evaluated by halves, the first
\* half before the second is entered, so that a long table does not need a deep
\* recursion.
RECURSIVE EncodeAckSteps(_, _, _, _)
EncodeAckSteps(t, lo, hi, st) ==
  IF lo > hi THEN st
  ELSE IF lo = hi THEN EncodeAckStep(st, t[lo])
  ELSE LET mid == (lo + hi) \div 2
           half == EncodeAckSteps(t, lo, mid, st)
       IN IF Len(half.recs) >= 0 THEN EncodeAckSteps(t, mid + 1, hi, half) ELSE half

\* The sweep of EncodeAck over the sorted table t, from t[pointer] on, and the
\* record written after the loop.
EncodeAckSweep(t, pointer, start, last, recs) ==
  LET st == EncodeAckSteps(t, pointer, Len(t), [start |-> start, last |-> last, recs |-> recs])
  IN Append(st.recs, AckRecord(st.start, st.last))

\* EncodeAck after sort.Sort(t): the record count (uint16) and the records.
EncodeAckSorted(t) ==
  LET recs == IF t = <<>> THEN <<>> ELSE EncodeAckSweep(t, 2, t[1], t[1], <<>>)
  IN [records |-> Len(recs) % ShortSize, recs |-> recs]

\* EncodeAck
EncodeAck(S) == EncodeAckSorted(SortU32(S))

\* handleAckUpdate replacing the queue by the update instead of adding to it.
handleAckUpdateOverwrite(st, u) ==
  LET seqs == {u.seqs[i] : i \in DOMAIN u.seqs}
      listed == SelectSeq(u.seqs, LAMBDA q : q \in DOMAIN st.recovery)
  IN IF u.got
     THEN IF u.nack
          THEN [st EXCEPT !.out = @ \o [i \in DOMAIN listed |-> st.recovery[listed[i]].pk]]
          ELSE [st EXCEPT !.recovery = [q \in DOMAIN @ \ seqs |-> @[q]]]
     ELSE IF u.nack
          THEN [st EXCEPT !.nackQueue = seqs]
          ELSE [st EXCEPT !.ackQueue = seqs]

\* handleAckUpdate leaving an acknowledged entry in recovery.
handleAckUpdateKeepAcked(st, u) ==
  LET seqs == {u.seqs[i] : i \in DOMAIN u.seqs}
      listed == SelectSeq(u.seqs, LAMBDA q : q \in DOMAIN st.recovery)
  IN IF u.got
     THEN IF u.nack
          THEN [st EXCEPT !.out = @ \o [i \in DOMAIN listed |-> st.recovery[listed[i]].pk]]
          ELSE st
     ELSE IF u.nack
          THEN [st EXCEPT !.nackQueue = @ \cup seqs]
          ELSE [st EXCEPT !.ackQueue = @ \cup seqs]

\* handleAckUpdate dropping from recovery the entries it resends on a NACK.
handleAckUpdateDropResent(st, u) ==
  LET seqs == {u.seqs[i] : i \in DOMAIN u.seqs}
      listed == SelectSeq(u.seqs, LAMBDA q : q \in DOMAIN st.recovery)
  IN IF u.got
     THEN IF u.nack
          THEN [st EXCEPT !.out = @ \o [i \in DOMAIN listed |-> st.recovery[listed[i]].pk],
                          !.recovery = [q \in DOMAIN @ \ seqs |-> @[q]]]
          ELSE [st EXCEPT !.recovery = [q \in DOMAIN @ \ seqs |-> @[q]]]
     ELSE IF u.nack
          THEN [st EXCEPT !.nackQueue = @ \cup seqs]
          ELSE [st EXCEPT !.ackQueue = @ \cup seqs]

\* session.handleAckUpdate
handleAckUpdate(st, u) ==
  LET seqs == {u.seqs[i] : i \in DOMAIN u.seqs}
      listed == SelectSeq(u.seqs, LAMBDA q : q \in DOMAIN st.recovery)
  IN IF u.got
     THEN IF u.nack
          THEN [st EXCEPT !.out = @ \o [i \in DOMAIN listed |-> st.recovery[listed[i]].pk]]
          ELSE [st EXCEPT !.recovery = [q \in DOMAIN @ \ seqs |-> @[q]]]
     ELSE IF u.nack
          THEN [st EXCEPT !.nackQueue = @ \cup seqs]
          ELSE [st EXCEPT !.ackQueue = @ \cup seqs]

\* The first block of session.update: flush ackQueue.
FlushAcks(st) ==
  IF st.ackQueue # {}
  THEN [send(st, [t |-> IDAck, ack |-> EncodeAck(st.ackQueue)]) EXCEPT !.ackQueue = {}]
  ELSE st

\* update sending the NACK frame without emptying nackQueue.
FlushNacksKeepQueue(st) ==
  IF st.nackQueue # {}
  THEN send(st, [t |-> IDNack, ack |-> EncodeAck(st.nackQueue)])
  ELSE st

\* The second block of session.update: flush nackQueue.
FlushNacks(st) ==
  IF st.nackQueue # {}
  THEN [send(st, [t |-> IDNack, ack |-> EncodeAck(st.nackQueue)]) EXCEPT !.nackQueue = {}]
  ELSE st

\* The orders in which "for seq, pk := range s.recovery" can visit entries before
\* it breaks at the first entry that is not past RecoveryTimeout: map iteration
\* order is arbitrary.  An entry is [pk |-> datagram, expired |-> BOOLEAN].
RECURSIVE Orders(_)
Orders(S) ==
  IF S = {} THEN {<<>>}
  ELSE UNION {{<<x>> \o o : o \in Orders(S \ {x})} : x \in S}

RecoveryOrders(st) ==
  LET old == {q \in DOMAIN st.recovery : st.recovery[q].expired}
  IN IF old = DOMAIN st.recovery THEN Orders(old)
     ELSE UNION {Orders(D) : D \in SUBSET old}

\* What the router's send loop writes for a buffer that update() gave to Pool.Recycle
\* right after queueing it: Recycle resets the buffer while the send loop may not
\* have read it yet, so the datagram written is the stored one or whatever the
\* recycled buffer holds by then.
Recycled == [t |-> -1]

\* The last block of session.update, visiting the entries of order; intact is the
\* entries whose buffer the send loop read before it was recycled.
RECURSIVE ResendExpired(_, _, _)
ResendExpired(st, order, intact) ==
  IF order = <<>> THEN st
  ELSE LET q == Head(order)
       IN ResendExpired([send(st, IF q \in intact THEN st.recovery[q].pk ELSE Recycled)
                           EXCEPT !.recovery = MapDel(@, q)],
                        Tail(order), intact)

\* session.update
update(st, order, intact) == ResendExpired(FlushNacks(FlushAcks(st)), order, intact)

\* session.windowUpdate: map iteration visits the entries in an arbitrary order and
\* stops at the first one that is not below windowBorder[0]; gone is what it deleted.
WindowUpdateChoices(st) ==
  LET stale == {q \in st.packetWindow : LtU32(q, st.windowBorder[1])}
  IN IF stale = st.packetWindow THEN {stale} ELSE SUBSET stale

windowUpdate(st, gone) == [st EXCEPT !.packetWindow = @ \ gone]

(***************************************************************************)
(* Actions of the reader (session.work) and the sender (session.sendAsync) *)
(* while the close signal is not set; what the two loops do once it is set *)
(* is in SpecCancel.  A handler that posts to AckChan blocks while the     *)
(* channel is full.                                                        *)
(***************************************************************************)
\* case pk := <-s.ReceivedChan: s.handlePacket(pk)
Receive(pk) ==
  /\ ~s.closed
  /\ Len(handlePacket(s, pk).AckChan) <= chanBufsize
  /\ s' = handlePacket(s, pk)

\* case u := <-s.AckChan: s.handleAckUpdate(u)
SenderAckUpdate ==
  /\ ~s.closed
  /\ s.AckChan # <<>>
  /\ s' = handleAckUpdate([s EXCEPT !.AckChan = Tail(@)], Head(s.AckChan))

\* case <-s.updateTicker.C: s.update()
SenderTick ==
  /\ ~s.closed
  /\ \E order \in RecoveryOrders(s) :
       \E intact \in SUBSET {order[i] : i \in DOMAIN order} : s' = update(s, order, intact)

\* case <-s.windowUpdateTicker.C: s.windowUpdate()
WindowTick ==
  /\ ~s.closed
  /\ \E gone \in WindowUpdateChoices(s) : s' = windowUpdate(s, gone)

(***************************************************************************)
(* Datagrams of the peer.                                                  *)
(***************************************************************************)
OpenConnectionRequest1(pad) == [head |-> IDOpenConnectionRequest1, pad |-> pad]

OpenConnectionRequest2(mtu, id) ==
  [head |-> IDOpenConnectionRequest2, MtuSize |-> mtu, ClientID |-> id]

DataPacket(seq, eps) == [head |-> IDDataPacket, SeqNumber |-> seq, Packets |-> eps]

ClientConnect(ping) == <<IDClientConnect, 7, ping, 0>>

ClientHandshake == <<IDClientHandshake, Address, 100, 1100>>

(***************************************************************************)
(* SpecHandshake: a new session and a peer that sends handshake frames in  *)
(* any order.  rx is the datagrams handled so far and trail the status     *)
(* after each.                                                             *)
(***************************************************************************)
Pads == {1000}
Pings == {100}
Requests2 == {OpenConnectionRequest2(1018, 7)}

\* ClientConnect and ClientHandshake, unreliable or reliable with the message
\* index a client that counts from 0 gives them.
HandshakeEps ==
  UNION {{Encapsulated(0, 0, ClientConnect(p)), Encapsulated(2, 0, ClientConnect(p))}
         : p \in Pings}
  \cup {Encapsulated(0, 0, ClientHandshake), Encapsulated(2, 1, ClientHandshake)}

HandshakeDatagrams ==
  {OpenConnectionRequest1(pad) : pad \in Pads}
  \cup Requests2
  \cup {DataPacket(seq, <<ep>>) : seq \in 0..1, ep \in HandshakeEps}

ReceiveHandshake(pk) ==
  /\ Len(s.rx) < MaxRecv
  /\ ~s.closed
  /\ LET after == handlePacket(s, pk)
     IN s' = [after EXCEPT !.rx = Append(@, pk), !.trail = Append(@, after.Status)]

Init == s = NewSession

NextHandshake ==
  \/ \E pk \in HandshakeDatagrams : ReceiveHandshake(pk)
  \/ SenderAckUpdate
  \/ SenderTick

SpecHandshake == Init /\ [][NextHandshake]_vars

(***************************************************************************)
(* Claims about the handshake (SpecHandshake).                             *)
(***************************************************************************)
\* The status the transition table lists for a handshake frame.
ExpectedStatus(frame) ==
  CASE frame = "OpenConnectionRequest1" -> 0
    [] frame = "OpenConnectionRequest2" -> 1
    [] frame = "ClientConnect" -> 2
    [] frame = "ClientHandshake" -> 2

\* C2: a session becomes Established only by a ClientHandshake handled in
\* Request2Seen, so an Established session has been in Request1Seen and in
\* Request2Seen before.
C2_EstablishedOnlyFromRequest2Seen ==
  /\ s.Status = 3 => {1, 2} \subseteq s.seen
  /\ \A i \in DOMAIN s.frames :
       (s.frames[i].pre.Status # 3 /\ s.frames[i].post.Status = 3)
         => (s.frames[i].frame = "ClientHandshake" /\ s.frames[i].pre.Status = 2)

\* C3: a handshake frame handled in a status other than the one the transition
\* table lists for it changes nothing: no datagram is sent, and status, client id
\* and mtu stay as they were.
C3_OutOfStateFrameDropped ==
  \A i \in DOMAIN s.frames :
    s.frames[i].pre.Status # ExpectedStatus(s.frames[i].frame)
      => s.frames[i].post = s.frames[i].pre

\* The datagrams sent so far that are neither ACK nor NACK frames.
NonAck(out) == SelectSeq(out, LAMBDA d : d.t \notin {IDAck, IDNack})

\* The four datagrams of the handshake, the two encapsulated frames either
\* unreliable or reliable with message indexes 0 and 1.
IsHappyPath(rx, pad, r2, ping) ==
  /\ Len(rx) = 4
  /\ rx[1] = OpenConnectionRequest1(pad)
  /\ rx[2] = r2
  /\ \/ /\ rx[3] \in {DataPacket(0, <<Encapsulated(rel, 0, ClientConnect(ping))>>)
                        : rel \in {0, 2}}
        /\ rx[4] = DataPacket(1, <<Encapsulated(0, 0, ClientHandshake)>>)
     \/ /\ rx[3] = DataPacket(0, <<Encapsulated(2, 0, ClientConnect(ping))>>)
        /\ rx[4] = DataPacket(1, <<Encapsulated(2, 1, ClientHandshake)>>)

\* C4: after OpenConnectionRequest1, OpenConnectionRequest2, DataPacket(0,
\* [ClientConnect]) and DataPacket(1, [ClientHandshake]), in this order, the session
\* has sent (ACK frames aside) OpenConnectionReply1 with mtu 18 + the bytes after
\* magic and protocol, OpenConnectionReply2 with the request's mtu and the client
\* address, and DataPacket 0 carrying ServerHandshake with send_pong = send_ping +
\* 1000; its status was 1, 2, 2 and is 3.
C4_HandshakeHappyPath ==
  \A pad \in Pads, r2 \in Requests2, ping \in Pings :
    IsHappyPath(s.rx, pad, r2, ping) =>
      /\ NonAck(s.out) =
           << [t |-> IDOpenConnectionReply1, MtuSize |-> 18 + pad],
              [t |-> IDOpenConnectionReply2, ClientAddress |-> Address,
               MtuSize |-> r2.MtuSize],
              [t |-> IDDataPacket, seq |-> 0,
               eps |-> <<Encapsulated(0, 0, <<IDServerHandshake, Address, ping,
                                               ping + 1000>>)>>] >>
      /\ s.trail = <<1, 2, 2, 3>>
      /\ s.Status = 3

C4_Witness ==
  /\ \E pad \in Pads, r2 \in Requests2, ping \in Pings : IsHappyPath(s.rx, pad, r2, ping)
  /\ s.Status = 3
  /\ Len(NonAck(s.out)) = 3

(***************************************************************************)
(* The session after the handshake: the reader has handled the four        *)
(* datagrams of the happy path (ClientConnect and ClientHandshake sent     *)
(* unreliable), the sender has not run yet.                                *)
(***************************************************************************)
EstablishedSession ==
  LET a == handlePacket(NewSession, OpenConnectionRequest1(1000))
      b == handlePacket(a, OpenConnectionRequest2(1018, 7))
      c == handlePacket(b, DataPacket(0, <<Encapsulated(0, 0, ClientConnect(100))>>))
      d == handlePacket(c, DataPacket(1, <<Encapsulated(0, 0, ClientHandshake)>>))
  IN d

(***************************************************************************)
(* SpecReorder: an established session and a peer that sends reliable      *)
(* messages in any order, with repeats, one or two to a datagram, the      *)
(* datagrams numbered in order.  rx is the datagrams handled so far.       *)
(***************************************************************************)
\* An application payload (0x8e) and a payload too short to hold its id byte.
AppPayload(n) == <<IDMCPE, n>>

ReorderEps ==
  {Encapsulated(2, i, AppPayload(i)) : i \in 0..MaxIdx}
  \cup {Encapsulated(2, i, <<>>) : i \in 0..MaxIdx}

ReorderPackets ==
  {<<ep>> : ep \in ReorderEps}
  \cup {<<Encapsulated(2, i + 1, AppPayload(i + 1)), Encapsulated(2, i, AppPayload(i))>>
        : i \in 0..(MaxIdx - 1)}

ReceiveReorder(eps) ==
  /\ Len(s.rx) < MaxData
  /\ ~s.closed
  /\ LET pk == DataPacket(AddU32(s.lastSeq, 1), eps)
     IN s' = [handlePacket(s, pk) EXCEPT !.rx = Append(@, pk)]

InitReorder == s = EstablishedSession

NextReorder == \E eps \in ReorderPackets : ReceiveReorder(eps)

SpecReorder == InitReorder /\ [][NextReorder]_vars

\* The packets with a message index that handleEncapsulated was called with.
ReliableHanded(st) == SelectSeq(st.hand, LAMBDA e : HasMessageIndex(e))

\* C1: whatever the arrival order of reliable messages inside the window, repeats
\* included, handleEncapsulated is called with message indexes 0, 1, 2, ... in this
\* order, none skipped and none twice, and a message that arrived with an index
\* ahead of lastMsgIndex + 1 is in reliableWindow as long as its index has not been
\* reached.
C1_ReliableInOrder ==
  LET h == ReliableHanded(s)
  IN /\ \A i \in DOMAIN h : h[i].MessageIndex = i - 1
     /\ Len(h) = s.lastMsgIndex + 1
     /\ \A k \in s.relIn : k >= Len(h) => k \in DOMAIN s.reliableWindow

\* Message indexes 0, 2, 1 arrived in this order and were delivered as 0, 1, 2.
C1_Witness ==
  /\ Len(s.rx) >= 3
  /\ \A i \in 1..3 : Len(s.rx[i].Packets) = 1
  /\ s.rx[1].Packets[1].MessageIndex = 0
  /\ s.rx[2].Packets[1].MessageIndex = 2
  /\ s.rx[3].Packets[1].MessageIndex = 1
  /\ Len(ReliableHanded(s)) = 3
  /\ s.app = <<<<0>>, <<1>>, <<2>>>>

(***************************************************************************)
(* SpecSeq: a new or an established session and a peer whose datagrams     *)
(* arrive in any order, with gaps and repeats; the sender task and the     *)
(* window tick run in between.  Datagram q carries reliable message q.     *)
(***************************************************************************)
SeqDatagram(q) == DataPacket(q, <<Encapsulated(2, q, AppPayload(q))>>)

ReceiveSeq(pk) ==
  /\ Len(s.rx) < MaxSeqRecv
  /\ ~s.closed
  /\ Len(handlePacket(s, pk).AckChan) <= chanBufsize
  /\ s' = [handlePacket(s, pk) EXCEPT !.rx = Append(@, pk)]

InitSeq == s \in {NewSession, EstablishedSession}

NextSeq ==
  \/ \E q \in 0..MaxSeq : ReceiveSeq(SeqDatagram(q))
  \/ SenderAckUpdate
  \/ SenderTick
  \/ WindowTick

SpecSeq == InitSeq /\ [][NextSeq]_vars

\* The sequence numbers the records of an ACK or NACK frame list.
Carried(ack) ==
  UNION {IF ack.recs[i].single THEN {ack.recs[i].start}
         ELSE ack.recs[i].start .. ack.recs[i].last : i \in DOMAIN ack.recs}

\* The datagrams a step has sent.
Sent(old, new) == SubSeq(new.out, Len(old.out) + 1, Len(new.out))

\* The frames with id t among the datagrams ds.
FramesOf(t, ds) == SelectSeq(ds, LAMBDA d : d.t = t)

\* The sequences of the updates of the given kind waiting in AckChan.
Waiting(st, nack) ==
  UNION {{st.AckChan[i].seqs[j] : j \in DOMAIN st.AckChan[i].seqs}
         : i \in {k \in DOMAIN st.AckChan : ~st.AckChan[k].got /\ st.AckChan[k].nack = nack}}

\* The sequences the frames with id t sent so far list.
CarriedSoFar(st, t) ==
  UNION {Carried(st.out[i].ack) : i \in {k \in DOMAIN st.out : st.out[k].t = t}}

\* C5: a datagram whose sequence number was accepted before changes nothing when it
\* arrives again: no packet of it is handed on or buffered, lastSeq and windowBorder
\* stay as they are.
C5_AcceptedNeverReprocessed ==
  [][(s'.rx # s.rx /\ s'.rx[Len(s'.rx)].SeqNumber \in s.accepted)
       => /\ s'.hand = s.hand
          /\ s'.relIn = s.relIn
          /\ s'.reliableWindow = s.reliableWindow
          /\ s'.accepted = s.accepted
          /\ s'.lastSeq = s.lastSeq
          /\ s'.windowBorder = s.windowBorder]_vars

\* A datagram has arrived a second time after it was accepted the first time.
C5_Witness ==
  /\ Len(s.rx) >= 2
  /\ s.rx[Len(s.rx)] = s.rx[Len(s.rx) - 1]
  /\ s.rx[Len(s.rx)].SeqNumber \in s.accepted
  /\ Len(ReliableHanded(s)) >= 1

\* C6: an established session that has accepted sequences 0, 1 and 3 accepts
\* sequence 2 when it arrives afterwards and passes its packets to the reliable
\* reorder path, and neither lastSeq nor windowBorder moves backwards.
C6_LateArrivalAccepted ==
  [][(/\ s.Status = 3
      /\ s.accepted = {0, 1, 3}
      /\ s'.rx = Append(s.rx, SeqDatagram(2)))
       => /\ 2 \in s'.accepted
          /\ 2 \in s'.relIn
          /\ ~LtU32(s'.lastSeq, s.lastSeq)
          /\ ~LtU32(s'.windowBorder[1], s.windowBorder[1])]_vars

\* The updates GeneralDataPacket.Handle posts for sequence q after lastSeq: the
\* ACK of q, then one NACK for each sequence between lastSeq and q, ascending.
ExpectedUpdates(lastSeq, q) ==
  LET first == AddU32(lastSeq, 1)
      gap == IF SubU32(q, lastSeq) = 1 THEN {}
             ELSE {i \in 0..MaxSeq : first <= i /\ i < q}
  IN <<AckUpdate(FALSE, FALSE, <<q>>)>>
     \o [i \in 1..Cardinality(gap) |-> AckUpdate(FALSE, TRUE, <<first + i - 1>>)]

\* C7: when sequence q is accepted and q - lastSeq # 1, exactly the sequences
\* between lastSeq and q are queued for NACK, so the sequences NACKed so far
\* (waiting, queued or sent) are the ones skipped so far; a tick with nackQueue
\* non-empty sends exactly one 0xa0 frame, which lists exactly nackQueue, and
\* empties nackQueue, and a tick with nackQueue empty sends none.  After 0, 1 and
\* 3, the one NACK record is the single sequence 2.
C7_NackGeneration ==
  /\ [](/\ Waiting(s, TRUE) \cup s.nackQueue \cup CarriedSoFar(s, IDNack)
             = {i \in 0..MaxSeq : i \notin s.accepted /\ \E j \in s.accepted : i < j}
        /\ s.accepted = {0, 1, 3}
             => \A i \in DOMAIN s.out :
                  s.out[i].t = IDNack
                    => s.out[i].ack = [records |-> 1,
                                       recs |-> <<[single |-> TRUE, start |-> 2,
                                                   last |-> 2]>>])
  /\ [][s'.accepted # s.accepted
          => \E q \in s'.accepted \ s.accepted :
               s'.AckChan = s.AckChan \o ExpectedUpdates(s.lastSeq, q)]_vars
  /\ [][SenderTick
          => LET nacks == FramesOf(IDNack, Sent(s, s'))
             IN IF s.nackQueue = {} THEN nacks = <<>>
                ELSE /\ Len(nacks) = 1
                     /\ Carried(nacks[1].ack) = s.nackQueue
                     /\ s'.nackQueue = {}]_vars

\* Sequences 0, 1 and 3 were accepted and the NACK frame for 2 has been sent.
C7_Witness ==
  /\ s.accepted = {0, 1, 3}
  /\ CarriedSoFar(s, IDNack) = {2}
  /\ s.nackQueue = {}

(***************************************************************************)
(* SpecAck: the reader, the sender and the tick of a new session under the *)
(* scheduling of sendAsync: a select whose AckChan case is ready is        *)
(* eventually taken, and the update ticker keeps firing.  The peer may     *)
(* also send ClientDisconnect, which closes the session.                   *)
(***************************************************************************)
Disconnect(q) == DataPacket(q, <<Encapsulated(0, 0, <<IDClientDisconnect>>)>>)

AckDatagrams ==
  {SeqDatagram(q) : q \in 0..MaxSeq} \cup {Disconnect(q) : q \in 0..MaxSeq}

NextAck ==
  \/ \E pk \in AckDatagrams : Receive(pk)
  \/ SenderAckUpdate
  \/ SenderTick

\* A tick has something to do: update() changes the session exactly in these states,
\* so this is ENABLED <<SenderTick>>_vars.
TickPending ==
  /\ ~s.closed
  /\ \/ s.ackQueue # {}
     \/ s.nackQueue # {}
     \/ \E q \in DOMAIN s.recovery : s.recovery[q].expired

\* Weak fairness of the AckChan case and of the tick, the latter written out with
\* TickPending for its ENABLED.
SpecAck ==
  /\ Init
  /\ [][NextAck]_vars
  /\ WF_vars(SenderAckUpdate)
  /\ ([]<>(~TickPending) \/ []<><<SenderTick>>_vars)

\* C8: every accepted sequence is eventually listed by a 0xc0 frame unless the
\* session is closed; the accepted sequences are at any time the ones waiting in
\* AckChan, queued in ackQueue or listed by a 0xc0 frame already sent; a tick sends
\* at most one 0xc0 frame, and one that sends it lists exactly ackQueue and leaves
\* ackQueue empty.
C8_AckEmission ==
  /\ \A q \in 0..MaxSeq :
       (q \in s.accepted) ~> (s.closed \/ q \in CarriedSoFar(s, IDAck))
  /\ [](s.accepted = Waiting(s, FALSE) \cup s.ackQueue \cup CarriedSoFar(s, IDAck))
  /\ [][SenderTick
          => LET acks == FramesOf(IDAck, Sent(s, s'))
             IN IF s.ackQueue = {} THEN acks = <<>>
                ELSE /\ Len(acks) = 1
                     /\ Carried(acks[1].ack) = s.ackQueue
                     /\ s'.ackQueue = {}]_vars

\* One 0xc0 frame has carried several accepted sequences and nothing is left.
C8_Witness ==
  /\ Cardinality(s.accepted) >= 2
  /\ s.ackQueue = {}
  /\ s.AckChan = <<>>
  /\ \E i \in DOMAIN s.out : s.out[i].t = IDAck /\ Carried(s.out[i].ack) = s.accepted

(***************************************************************************)
(* SpecSplit: an established session and a peer that sends fragments, one  *)
(* to a datagram, with any split id, split count and split index (an index *)
(* may be at or above the count) and, for index 0, one of two payloads.    *)
(* rx is the fragments handled so far.                                     *)
(***************************************************************************)
FragmentPayloads(index) ==
  IF index = 0 THEN {<<IDMCPE, 0>>, <<IDMCPE, 100>>} ELSE {<<index>>}

Fragments ==
  UNION {{Fragment(0, 0, id, count, index, buf) : buf \in FragmentPayloads(index)}
         : id \in 1..MaxSplitID, count \in 1..MaxSplitCount, index \in 0..MaxSplitCount}

ReceiveFragment(ep) ==
  /\ Len(s.rx) < MaxFrags
  /\ ~s.closed
  /\ s' = [handlePacket(s, DataPacket(AddU32(s.lastSeq, 1), <<ep>>))
             EXCEPT !.rx = Append(@, ep)]

InitSplit == s = EstablishedSession

NextSplit == \E ep \in Fragments : ReceiveFragment(ep)

SpecSplit == InitSplit /\ [][NextSplit]_vars

\* The case of C9: every fragment received has split id id, split count n and an
\* index below n.
FragmentsOfOne(rx, id, n) ==
  \A i \in DOMAIN rx :
    rx[i].SplitID = id /\ rx[i].SplitCount = n /\ rx[i].SplitIndex < n

\* The split indexes among the first k fragments of rx.
IndexesIn(rx, k) == {rx[i].SplitIndex : i \in 1..k}

\* The payload of the first fragment of rx with the given index.
FirstPayload(rx, index) ==
  rx[CHOOSE i \in DOMAIN rx :
       /\ rx[i].SplitIndex = index
       /\ \A j \in 1..(i - 1) : rx[j].SplitIndex # index].Buffer

\* The first payloads of indexes 0..n-1, concatenated in ascending order.
InOrderPayload(rx, n) == Concat([i \in 1..n |-> FirstPayload(rx, i - 1)])

\* C9 as claimed: once the n fragments of a split id have all arrived, in any order
\* and with any repeats, exactly one packet has been delivered, its payload is the
\* fragments' payloads in ascending index order, and the split id has no entry.
C9_ExactlyOneDelivery ==
  \A id \in 1..MaxSplitID, n \in 1..MaxSplitCount :
    (FragmentsOfOne(s.rx, id, n) /\ IndexesIn(s.rx, Len(s.rx)) = 0..(n - 1))
      => /\ Len(s.joined) = 1
         /\ s.joined[1].sep.Buffer = InOrderPayload(s.rx, n)
         /\ id \notin DOMAIN s.splitTable

\* C9 amended: the packet is delivered when the last missing index arrives, after
\* any order and any repeats of the other fragments: at that moment exactly one
\* packet has been delivered, whose payload is the first payload received for each
\* index in ascending index order, and the split id has no entry; before that
\* moment nothing is delivered and the entry holds the first payload of each index.
C9_DeliveryOnCompletion ==
  \A id \in 1..MaxSplitID, n \in 1..MaxSplitCount :
    FragmentsOfOne(s.rx, id, n) =>
      /\ (/\ IndexesIn(s.rx, Len(s.rx)) = 0..(n - 1)
          /\ IndexesIn(s.rx, Len(s.rx) - 1) # 0..(n - 1))
           => /\ Len(s.joined) = 1
              /\ s.joined[1].sep.Buffer = InOrderPayload(s.rx, n)
              /\ s.hand[Len(s.hand)] = s.joined[1].sep
              /\ id \notin DOMAIN s.splitTable
      /\ (s.rx # <<>> /\ IndexesIn(s.rx, Len(s.rx)) # 0..(n - 1))
           => /\ s.joined = <<>>
              /\ id \in DOMAIN s.splitTable
              /\ s.splitTable[id]
                   = [i \in IndexesIn(s.rx, Len(s.rx)) |-> FirstPayload(s.rx, i)]

\* Index 0 arrived twice with different payloads, then index 1 completed the packet.
C9_Witness ==
  /\ Len(s.rx) = 3
  /\ FragmentsOfOne(s.rx, 1, 2)
  /\ s.rx[1].SplitIndex = 0
  /\ s.rx[2].SplitIndex = 0
  /\ s.rx[1].Buffer # s.rx[2].Buffer
  /\ s.rx[3].SplitIndex = 1
  /\ Len(s.joined) = 1
  /\ s.app = <<Tail(s.rx[1].Buffer \o s.rx[3].Buffer)>>

\* C10: a packet is delivered by joinSplits only when a fragment of every index
\* 0..SplitCount-1 is in the table, whatever counts and indexes the peer sends.
C10_NoDeliveryWithMissingFragment ==
  \A i \in DOMAIN s.joined :
    0..(s.joined[i].last.SplitCount - 1) \subseteq s.joined[i].have

(***************************************************************************)
(* SpecSplitRel: an established session and a peer that sends fragments of *)
(* any reliability, one to a datagram; a reliable fragment carries the     *)
(* message index the session expects next, so that it is handled at once.  *)
(***************************************************************************)
SplitReliabilities == {0, 2, 3}

ReliableFragment(st, rel, id, count, index) ==
  Fragment(rel, IF rel >= 2 THEN AddU32(st.lastMsgIndex, 1) ELSE 0, id, count, index,
           IF index = 0 THEN <<IDMCPE, 0>> ELSE <<index>>)

ReceiveReliableFragment(rel, id, count, index) ==
  /\ Len(s.rx) < MaxRelFrags
  /\ ~s.closed
  /\ LET ep == ReliableFragment(s, rel, id, count, index)
     IN s' = [handlePacket(s, DataPacket(AddU32(s.lastSeq, 1), <<ep>>))
                EXCEPT !.rx = Append(@, ep)]

NextSplitRel ==
  \E rel \in SplitReliabilities, id \in 1..MaxSplitID,
     count \in 1..MaxSplitCount, index \in 0..(MaxSplitCount - 1) :
    ReceiveReliableFragment(rel, id, count, index)

SpecSplitRel == InitSplit /\ [][NextSplitRel]_vars

\* C11: every packet that joinSplits hands to handleEncapsulated has HasSplit false
\* and the reliability of the fragment that completed it.
C11_ReassembledKeepsReliability ==
  \A i \in DOMAIN s.joined :
    /\ s.joined[i].sep.HasSplit = FALSE
    /\ s.joined[i].sep.Reliability = s.joined[i].last.Reliability

(***************************************************************************)
(* SendEncapsulated, called by the application task (Player.SendDirect).   *)
(* calls is the history of the calls: the packet given, the mtu size and   *)
(* the split id at the call, what was put on EncapsulatedChan, and whether *)
(* the call panicked.                                                      *)
(***************************************************************************)
\* EncapsulatedPacket.TotalLen
TotalLen(ep) ==
  3 + Len(ep.Buffer)
    + (IF ep.Reliability >= 2 /\ ep.Reliability # 5 THEN 3 ELSE 0)
    + (IF ep.Reliability # 0 /\ ep.Reliability <= 4 /\ ep.Reliability # 2 THEN 4 ELSE 0)
    + (IF ep.HasSplit THEN 10 ELSE 0)

\* uint32 division and remainder of a length n < 2^31 by d # 0; a d with the top
\* bit set is above every such n.
DivU32(n, d) == IF d < 0 THEN 0 ELSE n \div d

ModU32(n, d) == IF d < 0 THEN n ELSE n % d

\* The loop of SendEncapsulated over the remaining payload: ep.Next(int(mtu)) takes
\* mtu bytes, or all that is left when fewer remain.
RECURSIVE SplitLoop(_, _, _, _, _, _, _)
SplitLoop(st, ep, rest, mtu, splitID, splitCount, splitIndex) ==
  IF rest = <<>> THEN st
  ELSE
    LET n == IF mtu < 0 \/ mtu > Len(rest) THEN Len(rest) ELSE mtu
        sp0 == Fragment(ep.Reliability, st.messageIndex, splitID, splitCount, splitIndex,
                        SubSeq(rest, 1, n))
        sp == IF ep.Reliability = 3
              THEN [sp0 EXCEPT !.OrderChannel = ep.OrderChannel,
                               !.OrderIndex = ep.OrderIndex]
              ELSE sp0
        st1 == [st EXCEPT !.messageIndex = AddU32(@, 1),
                          !.EncapsulatedChan = Append(@, sp)]
    IN SplitLoop(st1, ep, SubSeq(rest, n + 1, Len(rest)), mtu, splitID, splitCount,
                 splitIndex + 1)

\* session.SendEncapsulated.  A division by mtu = 0 panics in the caller's task
\* after the indexes and the split id were advanced.
SendEncapsulated(st, ep0) ==
  LET st1 == IF ep0.Reliability >= 2 /\ ep0.Reliability # 5
             THEN [st EXCEPT !.messageIndex = AddU32(@, 1)] ELSE st
      ep1 == IF ep0.Reliability >= 2 /\ ep0.Reliability # 5
             THEN [ep0 EXCEPT !.MessageIndex = st.messageIndex] ELSE ep0
      st2 == IF ep1.Reliability <= 4 /\ ep1.Reliability # 2
             THEN [st1 EXCEPT !.channelIndex[ep1.OrderChannel] = AddU32(@, 1)] ELSE st1
      ep == IF ep1.Reliability <= 4 /\ ep1.Reliability # 2
            THEN [ep1 EXCEPT !.OrderIndex = st1.channelIndex[ep1.OrderChannel]] ELSE ep1
      mtu == SubU32(st.mtuSize, 34)
      st3 == [st2 EXCEPT !.splitID = (@ + 1) % ShortSize]
      size == Len(ep.Buffer)
      splitCount == DivU32(size, mtu) + (IF ModU32(size, mtu) # 0 THEN 1 ELSE 0)
      after ==
        IF TotalLen(ep) + 4 > st.mtuSize
        THEN IF mtu = 0 THEN st3
             ELSE SplitLoop(st3, ep, ep.Buffer, mtu, st.splitID, splitCount, 0)
        ELSE [st2 EXCEPT !.EncapsulatedChan = Append(@, ep)]
  IN [after EXCEPT
        !.calls = Append(@, [ep |-> ep0, mtuSize |-> st.mtuSize, splitID |-> st.splitID,
                             splitIDAfter |-> after.splitID,
                             enq |-> SubSeq(after.EncapsulatedChan,
                                            Len(st.EncapsulatedChan) + 1,
                                            Len(after.EncapsulatedChan)),
                             panic |-> TotalLen(ep) + 4 > st.mtuSize /\ mtu = 0])]

(***************************************************************************)
(* SpecSend: established sessions whose peer announced one of several mtu  *)
(* sizes in OpenConnectionRequest2, and an application that sends packets  *)
(* of several reliabilities and lengths.                                   *)
(***************************************************************************)
SendMtus == {20, 34, 40, 46}

SendLens == {5, 33, 34, 41}

SendReliabilities == {0, 2, 3}

\* The payload of n bytes 1, 2, .., n.
Payload(n) == [i \in 1..n |-> i]

EstablishedWithMtu(mtu) ==
  LET a == handlePacket(NewSession, OpenConnectionRequest1(1000))
      b == handlePacket(a, OpenConnectionRequest2(mtu, 7))
      c == handlePacket(b, DataPacket(0, <<Encapsulated(0, 0, ClientConnect(100))>>))
      d == handlePacket(c, DataPacket(1, <<Encapsulated(0, 0, ClientHandshake)>>))
  IN d

Crashed(st) == \E i \in DOMAIN st.calls : st.calls[i].panic

ApplicationSend(rel, n) ==
  /\ Len(s.calls) < MaxSends
  /\ ~s.closed
  /\ ~Crashed(s)
  /\ s' = SendEncapsulated(s, Encapsulated(rel, 0, Payload(n)))

InitSend == \E mtu \in SendMtus : s = EstablishedWithMtu(mtu)

NextSend == \E rel \in SendReliabilities, n \in SendLens : ApplicationSend(rel, n)

SpecSend == InitSend /\ [][NextSend]_vars

\* ceil(n / d) for d > 0.
CeilDiv(n, d) == (n + d - 1) \div d

\* What C12 says of one call c of SendEncapsulated.
SplitAsClaimed(c) ==
  LET size == Len(c.ep.Buffer)
  IN IF TotalLen(c.ep) + 4 > c.mtuSize
     THEN /\ ~c.panic
          /\ c.mtuSize > 34
          /\ Len(c.enq) = CeilDiv(size, c.mtuSize - 34)
          /\ c.splitIDAfter = (c.splitID + 1) % ShortSize
          /\ \A i \in DOMAIN c.enq :
               /\ c.enq[i].HasSplit
               /\ c.enq[i].SplitID = c.splitID
               /\ c.enq[i].SplitCount = Len(c.enq)
               /\ c.enq[i].SplitIndex = i - 1
               /\ c.enq[i].Reliability = c.ep.Reliability
               /\ i > 1 => c.enq[i].MessageIndex = AddU32(c.enq[i - 1].MessageIndex, 1)
          /\ Concat([i \in DOMAIN c.enq |-> c.enq[i].Buffer]) = c.ep.Buffer
     ELSE /\ Len(c.enq) = 1
          /\ ~c.enq[1].HasSplit
          /\ c.enq[1].Reliability = c.ep.Reliability
          /\ c.enq[1].Buffer = c.ep.Buffer

\* C12: every call of SendEncapsulated with TotalLen + 4 > mtuSize enqueues exactly
\* ceil(len / (mtuSize - 34)) fragments, all with HasSplit, the session's split id
\* (advanced by one), SplitCount = N, SplitIndex 0..N-1 in enqueue order, the
\* packet's reliability, consecutive message indexes, and payloads that concatenate
\* to the packet's payload; every other call enqueues the packet unsplit.
C12_SplitOnSend == \A i \in DOMAIN s.calls : SplitAsClaimed(s.calls[i])

(***************************************************************************)
(* SpecRecovery: an established session whose application sends reliable   *)
(* packets, whose sender task emits them and keeps them in recovery, and   *)
(* whose peer sends ACK and NACK datagrams listing any sequence numbers.   *)
(* Time passes in Age: the entries sent up to some entry become older than *)
(* RecoveryTimeout.                                                        *)
(***************************************************************************)
\* case ep := <-s.EncapsulatedChan of sendAsync
sendQueued(st) ==
  LET ep == Head(st.EncapsulatedChan)
      seq == AddU32(st.seqNumber, 1)
      dp == [t |-> IDDataPacket, seq |-> LTriad(seq), eps |-> <<ep>>]
  IN [send([st EXCEPT !.EncapsulatedChan = Tail(@), !.seqNumber = seq], dp)
        EXCEPT !.recovery = MapPut(@, seq, [pk |-> dp, expired |-> FALSE])]

SenderSend ==
  /\ ~s.closed
  /\ s.EncapsulatedChan # <<>>
  /\ s' = sendQueued(s)

\* pk.SendTime.Add(RecoveryTimeout).Before(time.Now()) becomes true for the entry
\* of q and for every entry sent before it.
Age(q) ==
  /\ q \in DOMAIN s.recovery
  /\ ~s.recovery[q].expired
  /\ s' = [s EXCEPT !.recovery =
             [k \in DOMAIN @ |-> IF LtU32(q, k) THEN @[k] ELSE [@[k] EXCEPT !.expired = TRUE]]]

\* The sequence numbers the peer lists: the two that the session sends, alone and
\* together, and one that it never sends.
AckLists == {<<1>>, <<2>>, <<1, 2>>, <<3>>}

AckNackDatagrams == {[head |-> h, Seqs |-> l] : h \in {IDAck, IDNack}, l \in AckLists}

ReceiveAck(pk) ==
  /\ Len(s.rx) < MaxAckRecv
  /\ ~s.closed
  /\ Len(handlePacket(s, pk).AckChan) <= chanBufsize
  /\ s' = [handlePacket(s, pk) EXCEPT !.rx = Append(@, pk)]

\* case <-s.updateTicker.C: s.update(), recording in stale the entries older than
\* RecoveryTimeout that this tick left in recovery.
SenderTickObserved ==
  /\ ~s.closed
  /\ \E order \in RecoveryOrders(s) :
       \E intact \in SUBSET {order[i] : i \in DOMAIN order} :
         LET after == update(s, order, intact)
         IN s' = [after EXCEPT
                    !.stale = {q \in DOMAIN after.recovery : after.recovery[q].expired}]

NextRecovery ==
  \/ SenderSend
  \/ \E q \in {1, 2} : Age(q)
  \/ \E pk \in AckNackDatagrams : ReceiveAck(pk)
  \/ SenderAckUpdate
  \/ SenderTickObserved

\* The established session after its sender task took the two updates the handshake
\* left in AckChan and a tick sent their ACK, and after the application sent two
\* reliable packets, which wait in EncapsulatedChan.
Quiesced ==
  update(handleAckUpdate(handleAckUpdate([EstablishedSession EXCEPT !.AckChan = <<>>],
                                         EstablishedSession.AckChan[1]),
                         EstablishedSession.AckChan[2]),
         <<>>, {})

InitRecovery ==
  s = SendEncapsulated(SendEncapsulated(Quiesced, Encapsulated(2, 0, AppPayload(1))),
                       Encapsulated(2, 0, AppPayload(2)))

SpecRecovery == InitRecovery /\ [][NextRecovery]_vars

\* How many times DataPacket q was given to the send queue.
Emitted(st, q) ==
  Cardinality({i \in DOMAIN st.out :
                 st.out[i].t = IDDataPacket /\ st.out[i].seq = LTriad(q)})

\* C13: when the sender task processes an ACK that lists a sequence already sent, the
\* sequence is not in recovery afterwards; and a sequence that was sent and is not in
\* recovery never enters recovery and is never emitted again, whether by a tick
\* after the timeout or by a later NACK.
C13_AckStopsRetransmission ==
  [][\A q \in 0..3 :
       Emitted(s, q) > 0 =>
         /\ (/\ SenderAckUpdate
             /\ Head(s.AckChan).got /\ ~Head(s.AckChan).nack
             /\ \E i \in DOMAIN Head(s.AckChan).seqs : Head(s.AckChan).seqs[i] = q)
              => q \notin DOMAIN s'.recovery
         /\ q \notin DOMAIN s.recovery
              => /\ q \notin DOMAIN s'.recovery
                 /\ Emitted(s', q) = Emitted(s, q)]_vars

\* Sequence 1 was sent once and acknowledged; the peer then sent a NACK listing it,
\* which the sender has processed, and sequence 1 was still emitted once only.
C13_Witness ==
  /\ Len(s.rx) = 2
  /\ s.rx[1] = [head |-> IDAck, Seqs |-> <<1>>]
  /\ s.rx[2] = [head |-> IDNack, Seqs |-> <<1>>]
  /\ s.AckChan = <<>>
  /\ Emitted(s, 1) = 1
  /\ 1 \notin DOMAIN s.recovery
  /\ s.seqNumber = 2

\* The stored DataPackets of the sequences of l that are in recovery, in the order
\* of l.
StoredFor(st, l) ==
  LET listed == SelectSeq(l, LAMBDA q : q \in DOMAIN st.recovery)
  IN [i \in DOMAIN listed |-> st.recovery[listed[i]].pk]

\* C14: when the sender task processes a NACK, what it emits is exactly the stored
\* DataPacket of every listed sequence that is in recovery, each carrying the
\* sequence number it was first sent with; recovery and seqNumber are unchanged, so
\* the entries stay and listed sequences that are not in recovery emit nothing.
C14_NackResend ==
  [][(SenderAckUpdate /\ Head(s.AckChan).got /\ Head(s.AckChan).nack)
       => /\ s'.out = s.out \o StoredFor(s, Head(s.AckChan).seqs)
          /\ \A q \in DOMAIN s.recovery :
               /\ s.recovery[q].pk.t = IDDataPacket
               /\ s.recovery[q].pk.seq = LTriad(q)
               /\ Emitted(s, q) > 0
          /\ s'.recovery = s.recovery
          /\ s'.seqNumber = s.seqNumber]_vars

\* The peer sent a NACK listing 1 and 2 and then one listing 3 while both packets were
\* in recovery: each was emitted a second time with its sequence number, both are
\* still in recovery, and the NACK for the sequence never sent emitted nothing.
C14_Witness ==
  /\ s.rx = <<[head |-> IDNack, Seqs |-> <<1, 2>>], [head |-> IDNack, Seqs |-> <<3>>]>>
  /\ s.AckChan = <<>>
  /\ Emitted(s, 1) = 2
  /\ Emitted(s, 2) = 2
  /\ Emitted(s, 3) = 0
  /\ DOMAIN s.recovery = {1, 2}
  /\ s.seqNumber = 2

\* C15: a tick leaves no entry older than RecoveryTimeout in recovery, whatever
\* younger entries recovery holds.
C15_TickResendsEveryExpired == s.stale = {}

(***************************************************************************)
(* SpecTimeout: an established session whose timeout timer expires and     *)
(* whose peer sends nothing but a bounded number of Pong frames.  The      *)
(* timer is armed from creation until the session closes (every expiry     *)
(* that pings resets it), so its expiry is weakly fair.  Durations are not *)
(* modelled, and the sender task, which takes no part in the timeout, does *)
(* not run.                                                                *)
(***************************************************************************)
\* The random 64-bit ping id.
PingIDs == {0, 1}

\* The timeout case of session.work pinging without counting the try.
timeoutExpiredNoCount(st, id) ==
  IF st.Status < 3 \/ st.pingTries >= MaxPingTries
  THEN Close(st)
  ELSE [sendEncapsulatedDirect(st, Encapsulated(0, 0, <<IDPing, id>>))
          EXCEPT !.timeout = [d |-> timeout, head |-> -1]]

\* case <-s.timeout.C of session.work
timeoutExpired(st, id) ==
  IF st.Status < 3 \/ st.pingTries >= MaxPingTries
  THEN Close(st)
  ELSE [sendEncapsulatedDirect(st, Encapsulated(0, 0, <<IDPing, id>>))
          EXCEPT !.pingTries = @ + 1, !.timeout = [d |-> timeout, head |-> -1]]

TimeoutExpiry ==
  /\ ~s.closed
  /\ \E id \in PingIDs : s' = timeoutExpired(s, id)

ReceivePong(id) ==
  /\ Len(s.rx) < MaxPongs
  /\ ~s.closed
  /\ LET pk == DataPacket(AddU32(s.lastSeq, 1), <<Encapsulated(0, 0, <<IDPong, id>>)>>)
     IN s' = [handlePacket(s, pk) EXCEPT !.rx = Append(@, pk)]

NextTimeout ==
  \/ TimeoutExpiry
  \/ \E id \in PingIDs : ReceivePong(id)

SpecTimeout == InitSplit /\ [][NextTimeout]_vars /\ WF_vars(TimeoutExpiry)

\* The last datagram sent is a DataPacket holding the one unreliable frame buf.
LastSentIs(st, buf) ==
  /\ st.out # <<>>
  /\ st.out[Len(st.out)].t = IDDataPacket
  /\ st.out[Len(st.out)].eps = <<Encapsulated(0, 0, buf)>>

\* C16: in an established session an expiry of the timeout timer with fewer than
\* MaxPingTries tries sends exactly one Ping and adds one to pingTries; an expiry
\* after MaxPingTries consecutive tries without a Pong closes the session, sending
\* the disconnect frame; pingTries never exceeds MaxPingTries; and once the peer
\* sends nothing more the session is eventually closed.
C16_PingTimeout ==
  /\ [](s.pingTries <= MaxPingTries)
  /\ [][TimeoutExpiry
          => IF s.pingTries < MaxPingTries
             THEN /\ s'.pingTries = s.pingTries + 1
                  /\ Len(s'.out) = Len(s.out) + 1
                  /\ \E id \in PingIDs : LastSentIs(s', <<IDPing, id>>)
                  /\ ~s'.closed
             ELSE /\ s'.closed
                  /\ s'.pingTries = s.pingTries
                  /\ Len(s'.out) = Len(s.out) + 1
                  /\ LastSentIs(s', <<IDClientDisconnect>>)]_vars
  /\ <>s.closed

\* The session closed by timeout after three pings went unanswered: its last four
\* datagrams are three Pings and the disconnect frame.
C16_Witness ==
  /\ s.closed
  /\ s.pingTries = MaxPingTries
  /\ s.rx = <<>>
  /\ Len(s.out) >= 4
  /\ LastSentIs(s, <<IDClientDisconnect>>)
  /\ \A k \in 1..3 : s.out[Len(s.out) - k].eps[1].Buffer[1] = IDPing

(***************************************************************************)
(* SpecClose: session.Close called by the reader task (on timeout, or from *)
(* ClientDisconnect.Handle under handlePacket's recover) and by the        *)
(* application task (Player.disconnect), with no lock around it.  A call   *)
(* is three steps: the select that tests the close signal, close(s.closed) *)
(* and the sending of the disconnect frame.  closing holds each task's     *)
(* position in Close and the reason it was called with, the number of      *)
(* calls made, the number of panics, and whether an unrecovered panic      *)
(* ended the process.                                                      *)
(***************************************************************************)
\* The reasons a task can call Close with in state st: the reader when the timer
\* expires with the ping tries used up or when a ClientDisconnect frame arrives, the
\* application when it kicks the player.
CloseReasons(st, t) ==
  IF t = "reader"
  THEN {"client disconnect"}
         \cup (IF st.Status < 3 \/ st.pingTries >= MaxPingTries THEN {"timeout"} ELSE {})
  ELSE {"kick"}

\* select { case <-s.closed: return; default: }
CloseEnter(t, why) ==
  /\ ~s.closing.crashed
  /\ s.closing.pc[t] = "idle"
  /\ s.closing.calls < MaxCloseCalls
  /\ why \in CloseReasons(s, t)
  /\ s' = IF s.closed
          THEN [s EXCEPT !.closing.calls = @ + 1]
          ELSE [s EXCEPT !.closing.calls = @ + 1,
                         !.closing.pc[t] = "checked",
                         !.closing.why[t] = why]

\* close(s.closed): closing a closed channel panics.  The panic is recovered by
\* handlePacket when Close was called from ClientDisconnect.Handle and ends the
\* process otherwise.
CloseSignal(t) ==
  /\ ~s.closing.crashed
  /\ s.closing.pc[t] = "checked"
  /\ s' = IF s.closed
          THEN [s EXCEPT !.closing.panics = @ + 1,
                         !.closing.pc[t] = "idle",
                         !.closing.crashed = (s.closing.why[t] # "client disconnect")]
          ELSE [s EXCEPT !.closed = TRUE, !.closing.pc[t] = "signalled"]

\* s.sendEncapsulatedDirect(data) with data the 0x15 frame
CloseSend(t) ==
  /\ ~s.closing.crashed
  /\ s.closing.pc[t] = "signalled"
  /\ s' = [sendEncapsulatedDirect(s, Encapsulated(0, 0, <<IDClientDisconnect>>))
             EXCEPT !.closing.pc[t] = "idle"]

\* An expiry of the timeout timer that pings (the reader is not inside Close).
TimeoutPing ==
  /\ ~s.closing.crashed
  /\ s.closing.pc["reader"] = "idle"
  /\ s.pingTries < MaxPingTries
  /\ TimeoutExpiry

NextClose ==
  \/ \E t \in {"reader", "application"} : \E why \in {"timeout", "client disconnect", "kick"} : CloseEnter(t, why)
  \/ \E t \in {"reader", "application"} : CloseSignal(t)
  \/ \E t \in {"reader", "application"} : CloseSend(t)
  \/ TimeoutPing

SpecClose == InitSplit /\ [][NextClose]_vars

\* The disconnect frames sent so far.
Disconnects(st) ==
  {i \in DOMAIN st.out :
     st.out[i].t = IDDataPacket /\ st.out[i].eps = <<Encapsulated(0, 0, <<IDClientDisconnect>>)>>}

\* C17: whatever calls of Close the reader and the application make, one after the
\* other or at the same time, no call panics and at most one disconnect frame is
\* sent; once every call has returned and the session is closed, exactly one was.
C17_CloseIdempotent ==
  /\ s.closing.panics = 0
  /\ Cardinality(Disconnects(s)) <= 1
  /\ (s.closed /\ \A t \in {"reader", "application"} : s.closing.pc[t] = "idle")
       => Cardinality(Disconnects(s)) = 1

(***************************************************************************)
(* SpecRouter: the Router and the sessions of several peer addresses.  In  *)
(* this specification the variable s holds the Router: Sessions, recvChan, *)
(* closeNotify and blockList as in the source, pc and pending for the      *)
(* position of Router.work ("select", or "send" while it waits in          *)
(* ReceivedChan <- pk, or "notify" while it waits in closeNotify <- addr   *)
(* inside updateSession), and the history fields arrivals (datagrams read  *)
(* from the socket) and wrote (addresses the disconnect datagram was       *)
(* written to).  Of a session the router's model keeps Status, the close   *)
(* signal and ReceivedChan.  A blocklist entry records whether its         *)
(* cooldown time has passed.                                               *)
(***************************************************************************)
Addrs == 1..MaxAddr

\* CreateRouter
NewRouter ==
  [Sessions |-> EmptyMap, blockList |-> EmptyMap, recvChan |-> <<>>, closeNotify |-> <<>>,
   pc |-> "select", pending |-> <<>>, arrivals |-> 0, wrote |-> <<>>]

\* Router.GetSession: the session of the address, a new one if there is none.
GetSession(r, a) ==
  IF a \in DOMAIN r.Sessions THEN r
  ELSE [r EXCEPT !.Sessions =
          MapPut(@, a, [Status |-> 0, closed |-> FALSE, ReceivedChan |-> <<>>])]

\* Router.receivePacket: a datagram that is not an unconnected ping goes to recvChan.
Arrive(a) ==
  /\ s.arrivals < MaxArrivals
  /\ Len(s.recvChan) < QueueCap
  /\ s' = [s EXCEPT !.arrivals = @ + 1,
                    !.recvChan = Append(@, [Address |-> a, n |-> s.arrivals + 1])]

\* case s := <-r.closeNotify of Router.work
RouterEvict ==
  /\ s.pc = "select"
  /\ s.closeNotify # <<>>
  /\ LET a == Head(s.closeNotify)
     IN s' = [s EXCEPT !.closeNotify = Tail(@),
                       !.Sessions = MapDel(@, a),
                       !.blockList = MapPut(MapDel(@, a), a, [expired |-> FALSE])]

\* case pk := <-r.recvChan of Router.work; the send on ReceivedChan waits while the
\* session's queue is full.
RouterDispatch ==
  /\ s.pc = "select"
  /\ s.recvChan # <<>>
  /\ LET pk == Head(s.recvChan)
         a == pk.Address
         r0 == [s EXCEPT !.recvChan = Tail(@)]
     IN IF a \in DOMAIN s.blockList /\ ~s.blockList[a].expired
        THEN s' = [r0 EXCEPT !.wrote = Append(@, a)]
        ELSE LET r1 == GetSession([r0 EXCEPT !.blockList = MapDel(@, a)], a)
             IN IF Len(r1.Sessions[a].ReceivedChan) < QueueCap
                THEN s' = [r1 EXCEPT !.Sessions[a].ReceivedChan = Append(@, pk)]
                ELSE s' = [r1 EXCEPT !.pc = "send", !.pending = <<pk>>]

\* The send on ReceivedChan completes once the session's reader has made room.
RouterSend ==
  /\ s.pc = "send"
  /\ LET pk == s.pending[1]
     IN /\ Len(s.Sessions[pk.Address].ReceivedChan) < QueueCap
        /\ s' = [s EXCEPT !.Sessions[pk.Address].ReceivedChan = Append(@, pk),
                          !.pc = "select", !.pending = <<>>]

\* default of Router.work: updateSession puts the address of every session whose
\* close signal is set on closeNotify, in map order; the queue is read by
\* Router.work alone, so a send that finds it full waits for ever.
RouterPoll ==
  /\ s.pc = "select"
  /\ s.closeNotify = <<>>
  /\ s.recvChan = <<>>
  /\ \E order \in Orders({a \in DOMAIN s.Sessions : s.Sessions[a].closed}) :
       s' = IF Len(order) <= QueueCap
            THEN [s EXCEPT !.closeNotify = order]
            ELSE [s EXCEPT !.closeNotify = SubSeq(order, 1, QueueCap), !.pc = "notify"]

\* session.work takes a datagram from ReceivedChan; the handshake may advance.
SessionHandle(a) ==
  /\ a \in DOMAIN s.Sessions
  /\ ~s.Sessions[a].closed
  /\ s.Sessions[a].ReceivedChan # <<>>
  /\ \E st \in {s.Sessions[a].Status, IF s.Sessions[a].Status < 3
                                      THEN s.Sessions[a].Status + 1 ELSE 3} :
       s' = [s EXCEPT !.Sessions[a].ReceivedChan = Tail(@), !.Sessions[a].Status = st]

\* session.Close: the close signal is set and the session's tasks stop.
SessionClose(a) ==
  /\ a \in DOMAIN s.Sessions
  /\ ~s.Sessions[a].closed
  /\ s' = [s EXCEPT !.Sessions[a].closed = TRUE]

\* Time passes the cooldown of an entry: blockList[a].After(time.Now()) is false
\* from now on.
CooldownOver(a) ==
  /\ a \in DOMAIN s.blockList
  /\ ~s.blockList[a].expired
  /\ s' = [s EXCEPT !.blockList[a].expired = TRUE]

InitRouter == s = NewRouter

NextRouter ==
  \/ \E a \in Addrs : Arrive(a)
  \/ RouterEvict
  \/ RouterDispatch
  \/ RouterSend
  \/ RouterPoll
  \/ \E a \in Addrs : SessionHandle(a)
  \/ \E a \in Addrs : SessionClose(a)
  \/ \E a \in Addrs : CooldownOver(a)

\* Every loop of the router and every reader that is not closed keeps running.
SpecRouter ==
  /\ InitRouter
  /\ [][NextRouter]_vars
  /\ WF_vars(RouterEvict) /\ WF_vars(RouterDispatch) /\ WF_vars(RouterSend)
  /\ WF_vars(RouterPoll)
  /\ \A a \in Addrs : WF_vars(SessionHandle(a))

\* The address of the datagram at the head of recvChan has a session that closed and
\* whose cooldown has not passed: the session is still in the map, or the address is
\* blocklisted with the cooldown in the future.
ClosedRecently(r, a) ==
  \/ a \in DOMAIN r.Sessions /\ r.Sessions[a].closed
  \/ a \in DOMAIN r.blockList /\ ~r.blockList[a].expired

\* C18: a datagram from an address whose session closed less than the cooldown ago
\* is answered with the disconnect datagram, is not forwarded and creates no
\* session; the first datagram after the cooldown removes the blocklist entry and
\* is forwarded to a new session in Listen.
C18_Blocklist ==
  [][(RouterDispatch /\ s.recvChan # <<>>)
       => LET a == Head(s.recvChan).Address
          IN /\ ClosedRecently(s, a)
                  => /\ s'.wrote = Append(s.wrote, a)
                     /\ s'.Sessions = s.Sessions
                     /\ s'.pc = "select"
             /\ (a \in DOMAIN s.blockList /\ s.blockList[a].expired)
                  => /\ a \notin DOMAIN s'.blockList
                     /\ s'.wrote = s.wrote
                     /\ s'.Sessions[a]
                          = [Status |-> 0, closed |-> FALSE,
                             ReceivedChan |-> <<Head(s.recvChan)>>]]_vars

\* C19: every session whose close signal is set is eventually removed from the
\* session map with its address blocklisted, and the router never waits inside
\* updateSession while it reports closed sessions.
C19_Eviction ==
  /\ \A a \in Addrs :
       (a \in DOMAIN s.Sessions /\ s.Sessions[a].closed)
         ~> (a \notin DOMAIN s.Sessions /\ a \in DOMAIN s.blockList)
  /\ [](s.pc # "notify")

\* C20: the router never waits for ever in the send on one session's ReceivedChan,
\* so a session that has stopped or stalled does not keep the datagrams of other
\* addresses from being dispatched.
C20_SessionIsolation == (s.pc = "send") ~> (s.pc = "select")

\* ---------------------------------------------------------------------------
\* Primitive codec. A byte string is a sequence of 0..255; a uint32 is its 32-bit
\* pattern as above; a uint64 is the record [hi, lo] of its two uint32 halves.

\* byte(n >> (8 * k)) of a uint32 n, k in 0..3
U32Byte(n, k) ==
  LET low == IF n >= 0 THEN n ELSE (n + Int32Max) + 1
      b == (low \div (256 ^ k)) % 256
  IN IF k = 3 /\ n < 0 THEN b + 128 ELSE b

\* uint32(b3)<<24 | uint32(b2)<<16 | uint32(b1)<<8 | uint32(b0)
U32Of(b3, b2, b1, b0) ==
  (IF b3 >= 128 THEN b3 - 256 ELSE b3) * TriadSize + b2 * ShortSize + b1 * 256 + b0

\* byte(n >> (8 * k)) of a uint64 n, k in 0..7
U64Byte(n, k) == IF k >= 4 THEN U32Byte(n.hi, k - 4) ELSE U32Byte(n.lo, k)

WriteByte(n) == <<n>>

ReadByte(b) == b[1]

WriteShort(n) == <<(n \div 256) % 256, n % 256>>

ReadShort(b) == b[1] * 256 + b[2]

WriteLShort(n) == <<n % 256, (n \div 256) % 256>>

ReadLShort(b) == b[2] * 256 + b[1]

WriteTriad(n) == <<U32Byte(n, 2), U32Byte(n, 1), U32Byte(n, 0)>>

ReadTriad(b) == U32Of(0, b[1], b[2], b[3])

WriteLTriad(n) == <<U32Byte(n, 0), U32Byte(n, 1), U32Byte(n, 2)>>

ReadLTriad(b) == U32Of(0, b[3], b[2], b[1])

WriteInt(n) == <<U32Byte(n, 3), U32Byte(n, 2), U32Byte(n, 1), U32Byte(n, 0)>>

ReadInt(b) == U32Of(b[1], b[2], b[3], b[4])

WriteLInt(n) == <<U32Byte(n, 0), U32Byte(n, 1), U32Byte(n, 2), U32Byte(n, 3)>>

ReadLInt(b) == U32Of(b[4], b[3], b[2], b[1])

WriteLong(n) ==
  <<U64Byte(n, 7), U64Byte(n, 6), U64Byte(n, 5), U64Byte(n, 4),
    U64Byte(n, 3), U64Byte(n, 2), U64Byte(n, 1), U64Byte(n, 0)>>

ReadLong(b) == [hi |-> U32Of(b[1], b[2], b[3], b[4]), lo |-> U32Of(b[5], b[6], b[7], b[8])]

\* The last byte written is byte(56), not byte(n >> 56).
WriteLLong(n) ==
  <<U64Byte(n, 0), U64Byte(n, 1), U64Byte(n, 2), U64Byte(n, 3),
    U64Byte(n, 4), U64Byte(n, 5), U64Byte(n, 6), 56>>

ReadLLong(b) == [hi |-> U32Of(b[8], b[7], b[6], b[5]), lo |-> U32Of(b[4], b[3], b[2], b[1])]

\* The values written: the ends of each width and values whose bytes all differ.
U8s == {0, 1, 56, 127, 128, 255}

U16s == {0, 1, 255, 256, 4660, 32768, 65535}

Triads == {0, 1, 66051, 8388608, TriadSize - 1}

U32s == {0, 1, 16909060, 939524096, Int32Max, Int32Min, -1}

U64s == [hi : U32s, lo : U32s]

Widths == {"Byte", "Short", "Triad", "Int", "Long"}

ValuesOf(w) ==
  CASE w = "Byte" -> U8s [] w = "Short" -> U16s [] w = "Triad" -> Triads
    [] w = "Int" -> U32s [] w = "Long" -> U64s

WriteOf(w, little, x) ==
  CASE w = "Byte" -> WriteByte(x)
    [] w = "Short" -> IF little THEN WriteLShort(x) ELSE WriteShort(x)
    [] w = "Triad" -> IF little THEN WriteLTriad(x) ELSE WriteTriad(x)
    [] w = "Int" -> IF little THEN WriteLInt(x) ELSE WriteInt(x)
    [] w = "Long" -> IF little THEN WriteLLong(x) ELSE WriteLong(x)

ReadOf(w, little, b) ==
  CASE w = "Byte" -> ReadByte(b)
    [] w = "Short" -> IF little THEN ReadLShort(b) ELSE ReadShort(b)
    [] w = "Triad" -> IF little THEN ReadLTriad(b) ELSE ReadTriad(b)
    [] w = "Int" -> IF little THEN ReadLInt(b) ELSE ReadInt(b)
    [] w = "Long" -> IF little THEN ReadLLong(b) ELSE ReadLong(b)

\* A buffer that one value is written to and then read from.
InitCodec == s = [pc |-> "empty", buf |-> <<>>]

CodecWrite(w, little, x) ==
  /\ s.pc = "empty"
  /\ s' = [pc |-> "written", w |-> w, little |-> little, x |-> x,
           buf |-> WriteOf(w, little, x)]

CodecRead ==
  /\ s.pc = "written"
  /\ s' = [s EXCEPT !.pc = "read", !.buf = <<>>] @@ [back |-> ReadOf(s.w, s.little, s.buf)]

NextCodec ==
  \/ \E w \in Widths, little \in BOOLEAN : \E x \in ValuesOf(w) : CodecWrite(w, little, x)
  \/ CodecRead

SpecCodec == InitCodec /\ [][NextCodec]_vars

\* C26: reading back the bytes that the matching write function produced returns
\* the value written, for every width and both byte orders.
C26_PrimitiveRoundTrip == s.pc = "read" => s.back = s.x

\* ---------------------------------------------------------------------------
\* The router's three goroutines and the socket. The record of CreateRouter gets
\* sendChan and the history fields socket (the writes made by receivePacket and by
\* the send loop; those of Router.work are in wrote), emits and crashed (a panic no goroutine recovers ends the process).
NewSocketRouter ==
  NewRouter @@ [sendChan |-> <<>>, socket |-> <<>>, emits |-> 0, crashed |-> FALSE]

\* The datagrams read from the socket: an unconnected ping with an 8-byte id, a
\* datagram that starts with 0x01 and ends before the id does, and a datagram of
\* another kind.
Datagrams == {<<1, 255, 254, 3, 4, 5, 6, 7, 8>>, <<1, 0, 0, 0>>, <<IDOpenConnectionRequest1>>}

\* The addresses that datagrams come from.
SocketAddrs == {1, 2}

\* The unconnected pong: 0x1c, the ping id, then the server id, the magic and the
\* status string, which no state of the model depends on.
UnconnectedPong(pingID) == <<28>> \o WriteLong(pingID)

\* One turn of the loop of Router.receivePacket. ReadLong panics when fewer than
\* eight bytes follow the first; nothing in this goroutine recovers.
receivePacket(a, dg) ==
  /\ ~s.crashed
  /\ s.arrivals < MaxArrivals
  /\ LET r0 == [s EXCEPT !.arrivals = @ + 1]
     IN IF dg[1] = 1
        THEN IF Len(dg) < 9
             THEN s' = [r0 EXCEPT !.crashed = TRUE]
             ELSE s' = [r0 EXCEPT !.socket =
                          Append(@, [by |-> "receivePacket", Address |-> a,
                                     buf |-> UnconnectedPong(ReadLong(SubSeq(dg, 2, 9)))])]
        ELSE /\ Len(s.recvChan) < QueueCap
             /\ s' = [r0 EXCEPT !.recvChan = Append(@, [Address |-> a])]

\* session.send: a task of an open session puts a datagram on the router's sendChan.
SessionEmit(a) ==
  /\ ~s.crashed
  /\ a \in DOMAIN s.Sessions
  /\ ~s.Sessions[a].closed
  /\ s.emits < MaxSends
  /\ Len(s.sendChan) < QueueCap
  /\ s' = [s EXCEPT !.emits = @ + 1, !.sendChan = Append(@, [Address |-> a, buf |-> <<IDDataPacket>>])]

\* One turn of the loop of Router.sendAsync.
RouterSendAsync ==
  /\ ~s.crashed
  /\ s.sendChan # <<>>
  /\ s' = [s EXCEPT !.sendChan = Tail(@),
                    !.socket = Append(@, [by |-> "sendAsync", Address |-> Head(s.sendChan).Address,
                                          buf |-> Head(s.sendChan).buf])]

InitSocket == s = NewSocketRouter

\* The cases of Router.work and a session's Close, while the process runs.
WorkEvict == ~s.crashed /\ RouterEvict

WorkDispatch == ~s.crashed /\ RouterDispatch

WorkPoll == ~s.crashed /\ RouterPoll

SocketSessionClose(a) == ~s.crashed /\ SessionClose(a)

NextSocket ==
  \/ \E a \in SocketAddrs, dg \in Datagrams : receivePacket(a, dg)
  \/ \E a \in SocketAddrs : SessionEmit(a)
  \/ RouterSendAsync
  \/ WorkEvict
  \/ WorkDispatch
  \/ WorkPoll
  \/ \E a \in SocketAddrs : SocketSessionClose(a)

SpecSocket == InitSocket /\ [][NextSocket]_vars

\* What an unconnected ping may not change.
RouterState(r) ==
  [Sessions |-> r.Sessions, blockList |-> r.blockList, recvChan |-> r.recvChan,
   closeNotify |-> r.closeNotify, pc |-> r.pc, pending |-> r.pending, wrote |-> r.wrote,
   sendChan |-> r.sendChan, crashed |-> r.crashed]

\* C21: a datagram whose first byte is 0x01 is answered with an unconnected pong
\* that echoes the ping id, and the session map, every session, the blocklist and
\* the router's queues stay as they were.
C21_UnconnectedPing ==
  [][\A a \in SocketAddrs, dg \in Datagrams :
       (receivePacket(a, dg) /\ dg[1] = 1)
         => /\ RouterState(s') = RouterState(s)
            /\ Len(dg) >= 9
            /\ s'.socket = Append(s.socket, [by |-> "receivePacket", Address |-> a,
                                             buf |-> <<28>> \o SubSeq(dg, 2, 9)])]_vars

\* C29: every datagram written to the socket is written by the router's send loop.
C29_SingleSocketWriter ==
  /\ s.wrote = <<>>
  /\ \A i \in DOMAIN s.socket : s.socket[i].by = "sendAsync"

\* ---------------------------------------------------------------------------
\* SpecUpward: a session that has handled ClientConnect and a peer that sends, in
\* datagrams numbered in order, application payloads, the ClientHandshake, both in
\* one datagram in either order, the two fragments of an application payload and a
\* connected ping.
ConnectingSession ==
  LET a == handlePacket(NewSession, OpenConnectionRequest1(1000))
      b == handlePacket(a, OpenConnectionRequest2(1018, 7))
  IN handlePacket(b, DataPacket(0, <<Encapsulated(0, 0, ClientConnect(100))>>))

UpwardFrames ==
  LET app == Encapsulated(0, 0, AppPayload(1))
      hs == Encapsulated(0, 0, ClientHandshake)
  IN {<<app>>, <<hs>>, <<hs, app>>, <<app, hs>>,
      <<Fragment(0, 0, 1, 2, 0, AppPayload(0))>>, <<Fragment(0, 0, 1, 2, 1, <<1>>)>>,
      <<Encapsulated(0, 0, <<IDPing, 5>>)>>}

ReceiveUpward(eps) ==
  /\ Len(s.rx) < MaxRecv
  /\ ~s.closed
  /\ s' = [handlePacket(s, DataPacket(AddU32(s.lastSeq, 1), eps)) EXCEPT !.rx = Append(@, eps)]

InitUpward == s = ConnectingSession

NextUpward == \E eps \in UpwardFrames : ReceiveUpward(eps)

SpecUpward == InitUpward /\ [][NextUpward]_vars

\* The calls of handleEncapsulated with an unsplit (or reassembled) payload whose
\* first byte is 0x8e, made while the session was Established.
UpwardCalls(st) ==
  SelectSeq([i \in 1..Len(st.hand) |-> i],
            LAMBDA i : /\ ~st.hand[i].HasSplit
                       /\ st.hand[i].Buffer # <<>>
                       /\ Head(st.hand[i].Buffer) = IDMCPE
                       /\ st.at[i] = 3)

\* C22 as stated: the application layer gets exactly the unsplit or reassembled
\* payloads that start with 0x8e and were handled in Established, each with its
\* leading 0x8e byte.
C22_UpwardWithLeadingByte ==
  s.app = [k \in 1..Len(UpwardCalls(s)) |-> s.hand[UpwardCalls(s)[k]].Buffer]

\* C22: the application layer gets exactly the unsplit or reassembled payloads that
\* start with 0x8e and were handled in Established, each without its leading 0x8e
\* byte; a 0x8e payload handled before Established is dropped.
C22_UpwardOnlyEstablished ==
  s.app = [k \in 1..Len(UpwardCalls(s)) |-> Tail(s.hand[UpwardCalls(s)[k]].Buffer)]

\* An application payload was dropped before Established, and an unsplit and a
\* reassembled one were passed up after it.
C22_Witness ==
  /\ \E i \in DOMAIN s.hand : Head(s.hand[i].Buffer) = IDMCPE /\ s.at[i] < 3
  /\ s.joined # <<>>
  /\ Len(s.app) >= 2

\* ---------------------------------------------------------------------------
\* SpecWrap: an established session after 2^24 - 1 datagrams in each direction, all
\* of them in order and acknowledged, so that the next sequence number of each side
\* is 2^24 - 1 (the histories start again here).  The peer numbers its datagrams
\* modulo 2^24 and acknowledges the sequence numbers it reads from the wire.
WrapSession ==
  [Quiesced EXCEPT !.seqNumber = TriadSize - 2,
                   !.lastSeq = TriadSize - 2,
                   !.windowBorder = <<TriadSize - 1, TriadSize - 1 + windowSize>>,
                   !.packetWindow = {}, !.accepted = {}, !.out = <<>>]

\* The data datagrams handled so far.
DataReceived(st) == SelectSeq(st.rx, LAMBDA d : d.head = IDDataPacket)

\* The peer's next datagram, with an unreliable application payload.
WrapReceive ==
  /\ Len(s.rx) < MaxRecv
  /\ ~s.closed
  /\ LET pk == DataPacket(LTriad(TriadSize - 1 + Len(DataReceived(s))),
                          <<Encapsulated(0, 0, AppPayload(1))>>)
     IN s' = [handlePacket(s, pk) EXCEPT !.rx = Append(@, pk)]

InitWrap == s = WrapSession

NextWrap ==
  \/ WrapReceive
  \/ ApplicationSend(0, 5)
  \/ SenderSend
  \/ \E q \in {TriadSize - 1, 0} : ReceiveAck([head |-> IDAck, Seqs |-> <<q>>])
  \/ SenderAckUpdate

SpecWrap == InitWrap /\ [][NextWrap]_vars

\* C23: the counters wrap at 24 bits: the outbound sequence number stays below 2^24
\* (the one after 2^24 - 1 is 0), every DataPacket is kept in recovery under the
\* sequence number it carries on the wire, which is the one the peer acknowledges,
\* and every datagram of a peer that counts modulo 2^24 and sends in order lies
\* inside the receive window and is accepted, sequence 0 after 2^24 - 1 included.
C23_TriadWrap ==
  /\ s.seqNumber < TriadSize
  /\ \A q \in DOMAIN s.recovery : s.recovery[q].pk.seq = q
  /\ \A i \in DOMAIN s.rx :
       s.rx[i].head = IDDataPacket => s.rx[i].SeqNumber \in s.accepted

\* C24: a session whose reader has recovered from a panic raised while it handled a
\* datagram is closed.
C24_PanicClosesSession == s.recovered => s.closed

\* ---------------------------------------------------------------------------
\* The ACK codec.
\* The values one record of DecodeAck appends: a range is cut to start .. start+512.
DecodeAckRecord(rec) ==
  IF rec.single THEN <<rec.start>>
  ELSE LET last == IF LtU32(512, SubU32(rec.last, rec.start))
                   THEN AddU32(rec.start, 512) ELSE rec.last
       IN IF LtU32(last, rec.start) THEN <<>>
          ELSE [c \in 1..(SubU32(last, rec.start) + 1) |-> AddU32(rec.start, c - 1)]

\* The loop of DecodeAck from record i on; count is tested before each record.
RECURSIVE DecodeAckLoop(_, _, _)
DecodeAckLoop(ack, i, t) ==
  IF i >= ack.records \/ i >= Len(ack.recs) \/ Len(t) >= 4096 THEN t
  ELSE DecodeAckLoop(ack, i + 1, t \o DecodeAckRecord(ack.recs[i + 1]))

DecodeAck(ack) == DecodeAckLoop(ack, 0, <<>>)

\* n consecutive sequence numbers from a on, ascending.
Run(a, n) == [i \in 1..n |-> a + i - 1]

\* The sets encoded, each as the table sort.Sort makes of it: one run, or two runs
\* with a gap between them; a run has 1, 2, 513 or 514 members.
RunLens == {1, 2, 513, 514}

AckTables ==
  {Run(a, n) : a \in {0, 7, 1000}, n \in RunLens}
  \cup {Run(a, n) \o Run(a + n + g, m) : a \in {0, 1000}, g \in {1, 2, 600}, n \in RunLens,
                                         m \in RunLens}

InitAckCodec == s = [pc |-> "empty"]

AckEncode(t) ==
  /\ s.pc = "empty"
  /\ s' = [pc |-> "encoded", t |-> t, ack |-> EncodeAckSorted(t)]

AckDecode ==
  /\ s.pc = "encoded"
  /\ s' = [pc |-> "decoded", t |-> s.t, ack |-> s.ack, back |-> DecodeAck(s.ack)]

NextAckCodec == (\E t \in AckTables : AckEncode(t)) \/ AckDecode

SpecAckCodec == InitAckCodec /\ [][NextAckCodec]_vars

\* The maximal runs of consecutive values of an ascending table.
RunStartsOf(t) == {i \in DOMAIN t : i = 1 \/ t[i - 1] + 1 # t[i]}

\* C25: decoding the encoding of a set of sequence numbers gives exactly its members
\* in ascending order, runs of more than 513 consecutive values included, and the
\* encoding has one record for each maximal run of consecutive values.
C25_AckRoundTrip ==
  /\ s.pc = "decoded" => s.back = s.t
  /\ s.pc = "encoded" => Len(s.ack.recs) = Cardinality(RunStartsOf(s.t))

\* ---------------------------------------------------------------------------
\* SpecCancel: the two loops of a session around the close signal.  work returns
\* from its first select once the signal is set; when another task sets the signal
\* while work waits in its second select and a datagram is ready as well, that
\* select may take the datagram.  The first select of sendAsync only stops the
\* timers, and its second select chooses among all the cases that are ready, the
\* close signal being one of them.  The session starts as in SpecRecovery.
CancelDatagrams ==
  {[head |-> IDAck, Seqs |-> <<1>>],
   DataPacket(2, <<Encapsulated(0, 0, <<IDPing, 5>>)>>),
   DataPacket(2, <<Encapsulated(0, 0, <<IDClientDisconnect>>)>>)}

\* Player.disconnect: the application task calls session.Close.
ApplicationClose ==
  /\ ~s.closed
  /\ s' = [Close(s) EXCEPT !.tasks.byOther = TRUE]

\* case pk := <-s.ReceivedChan of the second select of work, taken although the
\* close signal is set; the first select of the next turn returns.
ReaderLate(pk) ==
  /\ s.closed
  /\ s.tasks.reader = "select"
  /\ s.tasks.byOther
  /\ Len(s.rx) < MaxAckRecv
  /\ s' = [handlePacket(s, pk) EXCEPT !.rx = Append(@, pk), !.tasks.reader = "returned"]

\* case <-s.closed of work
ReaderReturn ==
  /\ s.closed
  /\ s.tasks.reader = "select"
  /\ s' = [s EXCEPT !.tasks.reader = "returned"]

\* case ep := <-s.EncapsulatedChan of sendAsync, taken although the close signal is set
SenderLateSend ==
  /\ s.closed
  /\ s.tasks.sender = "select"
  /\ s.EncapsulatedChan # <<>>
  /\ s' = sendQueued(s)

\* case u := <-s.AckChan of sendAsync, taken although the close signal is set
SenderLateAckUpdate ==
  /\ s.closed
  /\ s.tasks.sender = "select"
  /\ s.AckChan # <<>>
  /\ s' = handleAckUpdate([s EXCEPT !.AckChan = Tail(@)], Head(s.AckChan))

\* case <-s.closed of the second select of sendAsync
SenderReturn ==
  /\ s.closed
  /\ s.tasks.sender = "select"
  /\ s' = [s EXCEPT !.tasks.sender = "returned"]

NextCancel ==
  \/ \E pk \in CancelDatagrams : ReceiveAck(pk)
  \/ SenderSend
  \/ SenderAckUpdate
  \/ ApplicationClose
  \/ \E pk \in CancelDatagrams : ReaderLate(pk)
  \/ ReaderReturn
  \/ SenderLateSend
  \/ SenderLateAckUpdate
  \/ SenderReturn

SpecCancel == InitRecovery /\ [][NextCancel]_vars

\* C27: once the close signal is set neither task takes another item: no datagram
\* is handled, no packet leaves EncapsulatedChan, no update leaves AckChan, nothing
\* more is sent after the disconnect frame and recovery stays as it is.
C27_ClosePriority ==
  [][s.closed => /\ s'.out = s.out
                 /\ s'.recovery = s.recovery
                 /\ s'.EncapsulatedChan = s.EncapsulatedChan
                 /\ s'.AckChan = s.AckChan
                 /\ s'.rx = s.rx]_vars

\* ---------------------------------------------------------------------------
\* The send-side fields of a session.
SendSide(st) ==
  [seqNumber |-> st.seqNumber, recovery |-> st.recovery, messageIndex |-> st.messageIndex,
   channelIndex |-> st.channelIndex, splitID |-> st.splitID,
   ackQueue |-> st.ackQueue, nackQueue |-> st.nackQueue]

\* C28: a step of the reader task (it handles a datagram) and a step of the
\* application task (a call of SendEncapsulated) leave every send-side field as it
\* was; only the sender task writes them.
C28_SenderSoleWriter ==
  [][(s'.rx # s.rx \/ s'.calls # s.calls) => SendSide(s') = SendSide(s)]_vars

\* ---------------------------------------------------------------------------
\* SpecPool: the buffers of the outbound datagrams of one session.  A buffer is a
\* number; Pool is the buffers that NewBuffer can hand out, SendChan the buffers
\* queued for the router's send loop, recovery the buffer kept for each sequence
\* number, made the number of buffers allocated so far.
NewBuffers ==
  [Pool |-> {}, SendChan |-> <<>>, recovery |-> EmptyMap, seqNumber |-> -1, made |-> 0]

\* case ep := <-s.EncapsulatedChan of sendAsync: DataPacket.Encode takes a buffer
\* from the pool, or a new one when the pool is empty; the buffer is queued and
\* kept in recovery.
PoolSend ==
  /\ s.seqNumber + 1 < MaxSends
  /\ Len(s.SendChan) < QueueCap
  /\ \E buf \in (IF s.Pool = {} THEN {s.made + 1} ELSE s.Pool) :
       s' = [s EXCEPT !.Pool = @ \ {buf},
                      !.made = IF buf > @ THEN buf ELSE @,
                      !.seqNumber = @ + 1,
                      !.SendChan = Append(@, buf),
                      !.recovery = MapPut(@, s.seqNumber + 1, [buf |-> buf, expired |-> FALSE])]

\* handleAckUpdate for a NACK that lists q: the stored buffer is queued again.
PoolNack(q) ==
  /\ q \in DOMAIN s.recovery
  /\ Len(s.SendChan) < QueueCap
  /\ s' = [s EXCEPT !.SendChan = Append(@, s.recovery[q].buf)]

\* handleAckUpdate for an ACK that lists q
PoolAck(q) ==
  /\ q \in DOMAIN s.recovery
  /\ s' = [s EXCEPT !.recovery = MapDel(@, q)]

\* The last block of session.update: s.send(pk.Buffer); Pool.Recycle(pk.Buffer);
\* delete(s.recovery, seq) for the entries of order.
RECURSIVE RecycleExpired(_, _)
RecycleExpired(st, order) ==
  IF order = <<>> THEN st
  ELSE LET buf == st.recovery[Head(order)].buf
       IN RecycleExpired([st EXCEPT !.SendChan = Append(@, buf),
                                    !.Pool = @ \cup {buf},
                                    !.recovery = MapDel(@, Head(order))],
                         Tail(order))

PoolTick ==
  \E order \in RecoveryOrders(s) :
    /\ order # <<>>
    /\ Len(s.SendChan) + Len(order) <= QueueCap
    /\ s' = RecycleExpired(s, order)

\* Router.sendAsync writes the datagram at the head of the queue.
PoolRouterSend ==
  /\ s.SendChan # <<>>
  /\ s' = [s EXCEPT !.SendChan = Tail(@)]

InitPool == s = NewBuffers

NextPool ==
  \/ PoolSend
  \/ \E q \in 0..MaxSends : Age(q)
  \/ \E q \in 0..MaxSends : PoolNack(q)
  \/ \E q \in 0..MaxSends : PoolAck(q)
  \/ PoolTick
  \/ PoolRouterSend

SpecPool == InitPool /\ [][NextPool]_vars

\* C30: no buffer that is queued for the router's send loop or kept in recovery is in
\* the pool.
C30_NoReleaseWhileReferenced ==
  s.Pool \cap ({s.SendChan[i] : i \in DOMAIN s.SendChan}
                 \cup {s.recovery[q].buf : q \in DOMAIN s.recovery}) = {}

\* ---------------------------------------------------------------------------
\* C31: both receive windows keep their width: windowBorder[1] - windowBorder[0] and
\* reliableBorder[1] - reliableBorder[0] are windowSize in every state.
C31_WindowWidth ==
  /\ SubU32(s.windowBorder[2], s.windowBorder[1]) = windowSize
  /\ SubU32(s.reliableBorder[2], s.reliableBorder[1]) = windowSize

\* Both windows have moved: a datagram was accepted after a gap, a late one was
\* dropped, one reliable message was delivered and another waits in reliableWindow.
C31_Witness ==
  /\ s.windowBorder[1] >= 3
  /\ s.reliableBorder[1] >= 1
  /\ DOMAIN s.reliableWindow # {}
  /\ \E i \in DOMAIN s.rx : s.rx[i].SeqNumber \notin s.accepted

\* ---------------------------------------------------------------------------
\* SpecTimer: a new session, a peer that sends the handshake datagrams and ACK and
\* NACK datagrams in any order, and the timeout timer, which may expire at any
\* moment while the reader runs.
TimerDatagrams ==
  {OpenConnectionRequest1(1000),
   DataPacket(0, <<Encapsulated(0, 0, ClientConnect(100))>>),
   DataPacket(1, <<Encapsulated(0, 0, ClientHandshake)>>),
   [head |-> IDAck, Seqs |-> <<0>>],
   [head |-> IDNack, Seqs |-> <<0>>]}

NextTimer ==
  \/ \E pk \in TimerDatagrams : ReceiveHandshake(pk)
  \/ TimeoutExpiry

SpecTimer == Init /\ [][NextTimer]_vars

\* C32: a datagram whose first byte is neither 0xa0 nor 0xc0 arms the timeout timer
\* again, with 1500 ms while the session is not Established and 2000 ms once it is;
\* an ACK or NACK datagram leaves the timer as it is; and an expiry while the session
\* is not Established closes the session and sends the disconnect frame only, no
\* Ping.
C32_TimeoutReset ==
  [][/\ s'.rx # s.rx
          => LET pk == s'.rx[Len(s'.rx)]
             IN IF pk.head = IDAck \/ pk.head = IDNack
                THEN s'.timeout = s.timeout
                ELSE s'.timeout = [d |-> IF s.Status = 3 THEN timeout ELSE connectTimeout,
                                   head |-> pk.head]
     /\ (TimeoutExpiry /\ s.Status # 3)
          => /\ s'.closed
             /\ Len(s'.out) = Len(s.out) + 1
             /\ LastSentIs(s', <<IDClientDisconnect>>)
             /\ s'.pingTries = s.pingTries]_vars

\* The timer was armed with 1500 ms by a handshake datagram, an ACK datagram came
\* after it, and then the timer expired and closed the session, which was not
\* Established.
C32_Witness ==
  /\ s.closed
  /\ s.Status # 3
  /\ s.timeout.d = connectTimeout
  /\ s.timeout.head # -1
  /\ Len(s.rx) >= 2
  /\ s.rx[Len(s.rx)].head = IDAck

\* ---------------------------------------------------------------------------
\* SpecAckDecode: DecodeAck on buffers a peer makes, record by record.
MaxAckRecs == 8

\* The records a peer writes: a range longer than 513, a range whose last is below
\* its start, and a single value.
AckRecs ==
  {[single |-> FALSE, start |-> 0, last |-> 600],
   [single |-> FALSE, start |-> 10, last |-> 3],
   [single |-> TRUE, start |-> 5, last |-> 5]}

InitAckDecode == s = [pc |-> "writing", ack |-> [records |-> 0, recs |-> <<>>]]

\* The range whose last is below its start is written as the first record only.
AckWrite(rec) ==
  /\ s.pc = "writing"
  /\ Len(s.ack.recs) < MaxAckRecs
  /\ rec.start <= rec.last \/ s.ack.recs = <<>>
  /\ s' = [s EXCEPT !.ack = [records |-> @.records + 1, recs |-> Append(@.recs, rec)]]

AckRead ==
  /\ s.pc = "writing"
  /\ s' = [pc |-> "decoded", ack |-> s.ack, back |-> DecodeAck(s.ack)]

NextAckDecode == (\E rec \in AckRecs : AckWrite(rec)) \/ AckRead

SpecAckDecode == InitAckDecode /\ [][NextAckDecode]_vars

\* C33: DecodeAck returns at most 4096 sequence numbers for every buffer, and a
\* range record whose last - start is above 512 gives start .. start+512 only.
C33_AckDecodeBounds ==
  s.pc = "decoded" =>
    /\ Len(s.back) <= 4096
    /\ \A rec \in AckRecs :
         (s.ack.recs = <<rec>> /\ ~rec.single /\ LtU32(512, SubU32(rec.last, rec.start)))
           => s.back = Run(rec.start, 513)

\* ---------------------------------------------------------------------------
\* SpecOverflow: a new session and a peer whose datagrams may end too early: a
\* DataPacket cut inside its second encapsulated packet, an OpenConnectionRequest2
\* cut after its mtu field, and an ACK cut inside its second record.
OverflowDatagrams ==
  {OpenConnectionRequest1(1000),
   OpenConnectionRequest2(1018, 7),
   DataPacket(0, <<Encapsulated(0, 0, ClientConnect(100))>>),
   DataPacket(1, <<Encapsulated(0, 0, ClientHandshake)>>),
   Cut(DataPacket(0, <<Encapsulated(0, 0, ClientHandshake)>>)),
   Cut(DataPacket(2, <<Encapsulated(0, 0, <<IDClientDisconnect>>)>>)),
   Cut(OpenConnectionRequest2(1018, 0)),
   Cut([head |-> IDAck, Seqs |-> <<0>>])}

NextOverflow ==
  \/ \E pk \in OverflowDatagrams : ReceiveHandshake(pk)
  \/ SenderAckUpdate

SpecOverflow == Init /\ [][NextOverflow]_vars

NumberingDatagrams ==
  {DataPacket(0, <<Encapsulated(0, 0, ClientConnect(100))>>),
   DataPacket(2, <<Encapsulated(0, 0, <<IDPing, 5>>)>>)}

NumberingReceive(pk) ==
  /\ Len(s.rx) < MaxPongs
  /\ ReceiveHandshake(pk)

\* case <-s.timeout.C, the first time: a Ping, or the disconnect frame of Close.
FirstTimeoutExpiry ==
  /\ ~s.closed
  /\ s.pingTries = 0
  /\ s' = timeoutExpired(s, 0)

InitNumbering == s \in {NewSession, EstablishedSession}

\* case ep := <-s.EncapsulatedChan, up to dp.SeqNumber = atomic.AddUint32(...)
SenderNumber ==
  /\ ~s.closed
  /\ s.sending = <<>>
  /\ s.EncapsulatedChan # <<>>
  /\ LET seq == AddU32(s.seqNumber, 1)
     IN s' = [s EXCEPT !.EncapsulatedChan = Tail(@), !.seqNumber = seq,
                       !.sending = <<[seq |-> seq,
                                      pk |-> [t |-> IDDataPacket, seq |-> LTriad(seq),
                                              eps |-> <<Head(s.EncapsulatedChan)>>]]>>]

\* dp.Encode(); s.send(dp.Buffer); s.recovery[dp.SeqNumber] = dp
SenderEmit ==
  /\ s.sending # <<>>
  /\ s' = [send(s, s.sending[1].pk) EXCEPT
             !.recovery = MapPut(@, s.sending[1].seq, [pk |-> s.sending[1].pk, expired |-> FALSE]),
             !.sending = <<>>]

SenderResend ==
  /\ s.sending = <<>>
  /\ SenderTick

NumberingSend ==
  /\ s.Status = 3
  /\ ApplicationSend(2, 2)

NextNumbering ==
  \/ \E pk \in NumberingDatagrams : NumberingReceive(pk)
  \/ FirstTimeoutExpiry
  \/ NumberingSend
  \/ SenderNumber
  \/ SenderEmit
  \/ \E q \in 0..MaxSeq : Age(q)
  \/ SenderResend

SpecNumbering == InitNumbering /\ [][NextNumbering]_vars

\* The positions of out that hold a DataPacket.
DataPacketsOut(st) == {i \in DOMAIN st.out : st.out[i].t = IDDataPacket}

ReliableQueued(st) ==
  {i \in DOMAIN st.EncapsulatedChan :
     st.EncapsulatedChan[i].Reliability >= 2 /\ st.EncapsulatedChan[i].Reliability # 5}

\* C36: after any calls of SendEncapsulated the message indexes of the reliable
\* packets in the sender's queue are 0, 1, .., k-1, each carried by exactly one
\* packet.
C36_MessageIndexNoGaps ==
  LET rel == ReliableQueued(s)
      k == Cardinality(rel)
  IN /\ {s.EncapsulatedChan[i].MessageIndex : i \in rel} = 0..(k - 1)
     /\ \A i, j \in rel :
          s.EncapsulatedChan[i].MessageIndex = s.EncapsulatedChan[j].MessageIndex => i = j

\* C37: whatever mtu_size the peer set, no call of SendEncapsulated panics and every
\* packet a call enqueues has TotalLen + 4 <= mtu_size.
C37_FragmentsFitMtu ==
  \A i \in DOMAIN s.calls :
    /\ ~s.calls[i].panic
    /\ \A j \in DOMAIN s.calls[i].enq : TotalLen(s.calls[i].enq[j]) + 4 <= s.calls[i].mtuSize

\* C38: windowBorder[0] is lastSeq + 1 in every state, in the arithmetic of the
\* 32-bit fields; every sequence stored in packetWindow is below windowBorder[0];
\* and lastSeq never decreases (it starts at ^uint32(0), one below 0).
C38_WindowFollowsLastSeq ==
  /\ [](/\ s.windowBorder[1] = AddU32(s.lastSeq, 1)
        /\ \A q \in s.packetWindow : LtU32(q, s.windowBorder[1]))
  /\ [][~LtU32(AddU32(s'.lastSeq, 1), AddU32(s.lastSeq, 1))]_vars

\* The window moved by more than one at once, a datagram numbered below it came
\* afterwards and was dropped, and packetWindow still holds what was accepted.
C38_Witness ==
  /\ s.packetWindow # {}
  /\ \E i \in DOMAIN s.rx :
       /\ i > 1
       /\ LtU32(s.rx[i].SeqNumber, s.rx[i - 1].SeqNumber)
       /\ LtU32(AddU32(s.rx[i].SeqNumber, 1), s.rx[i - 1].SeqNumber)
       /\ s.rx[i - 1].SeqNumber \in s.accepted
  /\ \E q \in s.accepted : q \notin s.packetWindow

\* ---------------------------------------------------------------------------
\* SpecStatus: a new session whose peer sends handshake frames and the disconnect
\* frame in any order, whose timer may expire and whose application may close it;
\* the reader may take one more datagram after the application has set the close
\* signal (see SpecCancel).
StatusDatagrams ==
  {OpenConnectionRequest1(1000),
   OpenConnectionRequest2(1018, 7),
   DataPacket(0, <<Encapsulated(0, 0, ClientConnect(100))>>),
   DataPacket(0, <<Encapsulated(0, 0, ClientHandshake)>>),
   DataPacket(1, <<Encapsulated(0, 0, ClientHandshake)>>),
   DataPacket(1, <<Encapsulated(0, 0, <<IDClientDisconnect>>)>>)}

StatusLate(pk) ==
  /\ s.closed
  /\ s.tasks.reader = "select"
  /\ s.tasks.byOther
  /\ Len(s.rx) < MaxRecv
  /\ LET after == handlePacket(s, pk)
     IN s' = [after EXCEPT !.rx = Append(@, pk), !.trail = Append(@, after.Status),
                           !.tasks.reader = "returned"]

NextStatus ==
  \/ \E pk \in StatusDatagrams : ReceiveHandshake(pk)
  \/ \E pk \in StatusDatagrams : StatusLate(pk)
  \/ FirstTimeoutExpiry
  \/ ApplicationClose
  \/ ReaderReturn

SpecStatus == Init /\ [][NextStatus]_vars

\* C39: the status of a session never decreases, whatever frames arrive and in
\* whatever order, and this holds for a closed session as well: closing leaves the
\* status as it is and a datagram handled after the close can only raise it.
C39_StatusMonotonic ==
  [][/\ s'.Status >= s.Status
     /\ (~s.closed /\ s'.closed) => s'.Status = s.Status]_vars

\* The application closed a session in Request1Seen and the reader then handled an
\* OpenConnectionRequest2: the reply follows the disconnect frame and the status is
\* Request2Seen.
C39_Witness ==
  /\ s.closed
  /\ s.Status = 2
  /\ Len(s.out) >= 2
  /\ s.out[Len(s.out)].t = IDOpenConnectionReply2
  /\ s.out[Len(s.out) - 1].t = IDDataPacket
  /\ s.out[Len(s.out) - 1].eps = <<Encapsulated(0, 0, <<IDClientDisconnect>>)>>

\* C40: connComplete makes the player of a session at most once, whatever frames
\* arrive, repeated ClientHandshake frames included.
C40_ConnectOnce == s.Player <= 1

====
